---------------------------- MODULE Spec2Model ----------------------------
(***************************************************************************)
(* A model of the documentation retrieval engine of cedar_mcp:             *)
(*   - DocsIndex.search and MastraDocsIndex.search (keyword scoring),      *)
(*   - DocsIndex._split_markdown (chunk extraction),                       *)
(*   - SemanticSearchService.search_by_vector / _direct_search,            *)
(*   - DocsIndex._load and MastraDocsIndex._parse_mastra_docs (loading),   *)
(*   - SearchDocsTool.handle (choice of the index),                        *)
(*   - search and describe calls of several callers on one index.          *)
(* Text is a sequence of one-character strings, so that normalisation,     *)
(* tokenisation and the regular-expression scan are computed, not assumed. *)
(* Python's None is the empty tuple None, a present value v is Some(v).    *)
(***************************************************************************)
EXTENDS Integers, Sequences, FiniteSets, TLC

VARIABLES
    kind,       \* which index class the index object is: "docs" | "mastra"
    chunks,     \* self.chunks of the index, fixed after construction
    query,      \* argument of the search call in progress / just returned
    limit,      \* argument of the search call
    result,     \* the list returned by the search call
    pc,         \* "idle" | "returned"
    text,       \* argument of _split_markdown
    sections,   \* value returned by _split_markdown
    splitPc,    \* "ready" | "done"
    openai,     \* SemanticSearchService.openai_client is not None
    semPc,      \* position inside search_by_vector
    semQuery,   \* query_terms of the call (query.lower().split())
    semLimit,   \* limit of the call
    semResult,  \* the list search_by_vector returned
    semRaised,  \* TRUE iff an exception left search_by_vector
    semLog,     \* remote operations issued by the call, with their outcomes
    semFellBack,\* TRUE once a call has fallen back after a failure
    files,      \* the entries of docs_path that _load visits, in order
    loadPos,    \* index of the entry _load visits next
    loadRaised, \* TRUE iff an exception left DocsIndex.__init__
    mdText,     \* the text of the file MastraDocsIndex._load reads
    parsePc,    \* "ready" | "done": _parse_mastra_docs has run
    selQuery,   \* arguments["query"] of SearchDocsTool.handle
    selDocType, \* arguments["doc_type"]: "auto" | "cedar" | "mastra"
    hasCedar,   \* SearchDocsTool.cedar_docs_index is not None
    hasMastra,  \* SearchDocsTool.mastra_docs_index is not None
    selSearched,\* the index handle searched: "cedar" | "mastra" | "none"
    selPc,      \* "ready" | "done": handle has run
    built,      \* self.chunks as the constructor left it
    calls,      \* per caller: its pending or last returned call
    topList, \* the list `top` of a search call: (score, chunk, token_hits)
    entries, \* the list `results` built from top
    resPc, \* "ready" | "done"
    confirmations, \* the map handed to validate_confirmations
    clarIndex, \* RequirementsClarifier.docs_index: None or the chunk sources
    validation, \* what validate_confirmations returned
    clarPc, \* "ready" | "done"
    requirements_confirmed, \* CedarModularMCPServer._requirements_confirmed
    gateIndex, \* the sources of the chunks of cedar_docs_index
    lastCall, \* the last tool call and its outcome
    lastConfirm, \* history: the payload's satisfied of the last confirmRequirements that returned
    sessions, \* IntegrationWizard._sessions: per session id None or its WizardState
    wizAsked, \* history, per session: id of the question last returned ("" if none)
    wizAnswered, \* history, per session: answer calls since its last start
    wizRet, \* what the last operation returned
    sse_connections, \* MCPFastAPIServer.sse_connections: the registered session ids
    sseQueue, \* per connection object: connection.queue
    ssePc, \* per connection: "none" | "new" | "open" | "closed"
    sseEmitted, \* per connection: the responses its stream has emitted
    postBodies, \* the responses returned in POST bodies
    issued, \* number of POST requests served
    outFile, \* the text of output_path: None or its header fields and body
    metaFile, \* the content of the .meta.json file, or None
    clock, \* datetime.now(): grows from run to run
    lastRun \* the last run of fetch_single_doc and what it did

coreVars == <<kind, chunks, query, limit, result, pc, text, sections, splitPc,
          openai, semPc, semQuery, semLimit, semResult, semRaised, semLog,
          semFellBack,
          files, loadPos, loadRaised, mdText, parsePc,
          selQuery, selDocType, hasCedar, hasMastra, selSearched, selPc,
          built, calls>>
\* the variables of the later components
resVars == <<topList, entries, resPc>>
clarVars == <<confirmations, clarIndex, validation, clarPc>>
gateVars == <<requirements_confirmed, gateIndex, lastCall, lastConfirm>>
wizVars == <<sessions, wizAsked, wizAnswered, wizRet>>
sseVars == <<sse_connections, sseQueue, ssePc, sseEmitted, postBodies,
        issued>>
fetchVars == <<outFile, metaFile, clock, lastRun>>
lateVars == <<resVars, clarVars, gateVars, wizVars, sseVars, fetchVars>>

vars == <<coreVars, lateVars>>

searchVars == <<kind, chunks, query, limit, result, pc>>
splitVars  == <<text, sections, splitPc>>
semVars    == <<openai, semPc, semQuery, semLimit, semResult, semRaised,
                semLog, semFellBack>>
loadVars   == <<files, loadPos, loadRaised>>
parseVars  == <<mdText, parsePc>>
selVars    == <<selQuery, selDocType, hasCedar, hasMastra, selSearched,
                selPc>>
concVars   == <<built, calls>>
\* the variables of the components added after the three above
extVars    == <<loadVars, parseVars, selVars, concVars, lateVars>>
\* everything but one later component
resOthers == <<searchVars, splitVars, semVars, loadVars, parseVars,
        selVars, concVars, clarVars, gateVars, wizVars, sseVars, fetchVars>>
clarOthers == <<searchVars, splitVars, semVars, loadVars, parseVars,
        selVars, concVars, resVars, gateVars, wizVars, sseVars, fetchVars>>
gateOthers == <<searchVars, splitVars, semVars, loadVars, parseVars,
        selVars, concVars, resVars, clarVars, wizVars, sseVars, fetchVars>>
wizOthers == <<searchVars, splitVars, semVars, loadVars, parseVars,
        selVars, concVars, resVars, clarVars, gateVars, sseVars, fetchVars>>
sseOthers == <<searchVars, splitVars, semVars, loadVars, parseVars,
        selVars, concVars, resVars, clarVars, gateVars, wizVars, fetchVars>>
fetchOthers == <<searchVars, splitVars, semVars, loadVars, parseVars,
        selVars, concVars, resVars, clarVars, gateVars, wizVars, sseVars>>
-----------------------------------------------------------------------------
(* Bounds of the model *)
MaxChunks == 2
MaxLimit == 3
MaxNegLimit == 2
MaxTextLen == 5
MaxRows == 2

-----------------------------------------------------------------------------
(* Generic helpers *)
None == <<>>
Some(v) == <<v>>
OrEmpty(opt) == IF opt = None THEN <<>> ELSE opt[1]

Min(a, b) == IF a < b THEN a ELSE b
Max(a, b) == IF a > b THEN a ELSE b

Range(s) == {s[i] : i \in 1..Len(s)}

\* seq[:n] of Python, n of either sign
PySliceTo(s, n) ==
    IF n >= 0 THEN SubSeq(s, 1, Min(n, Len(s)))
              ELSE SubSeq(s, 1, Max(0, Len(s) + n))

-----------------------------------------------------------------------------
(* Characters *)
LowerLetters == {"a","b","c","d","e","f","g","h","i","j","k","l","m",
                 "n","o","p","q","r","s","t","u","v","w","x","y","z"}
Digits == {"0","1","2","3","4","5","6","7","8","9"}
Whitespace == {" ", "\t", "\n"}
WordChars == LowerLetters \cup Digits \cup {"_"}

\* str.lower() on the ASCII letters
ToLower(c) ==
    CASE c = "A" -> "a" [] c = "B" -> "b" [] c = "C" -> "c" [] c = "D" -> "d"
      [] c = "E" -> "e" [] c = "F" -> "f" [] c = "G" -> "g" [] c = "H" -> "h"
      [] c = "I" -> "i" [] c = "J" -> "j" [] c = "K" -> "k" [] c = "L" -> "l"
      [] c = "M" -> "m" [] c = "N" -> "n" [] c = "O" -> "o" [] c = "P" -> "p"
      [] c = "Q" -> "q" [] c = "R" -> "r" [] c = "S" -> "s" [] c = "T" -> "t"
      [] c = "U" -> "u" [] c = "V" -> "v" [] c = "W" -> "w" [] c = "X" -> "x"
      [] c = "Y" -> "y" [] c = "Z" -> "z" [] OTHER -> c

\* re.sub(r"\s+", " ", s): every maximal run of whitespace becomes one space
RECURSIVE CollapseWs(_)
CollapseWs(s) ==
    IF s = <<>> THEN <<>>
    ELSE IF s[1] \in Whitespace
         THEN IF Len(s) > 1 /\ s[2] \in Whitespace
              THEN CollapseWs(Tail(s))
              ELSE <<" ">> \o CollapseWs(Tail(s))
         ELSE <<s[1]>> \o CollapseWs(Tail(s))

RECURSIVE LStrip(_)
LStrip(s) == IF s # <<>> /\ s[1] \in Whitespace THEN LStrip(Tail(s)) ELSE s

RECURSIVE RStrip(_)
RStrip(s) ==
    IF s # <<>> /\ s[Len(s)] \in Whitespace
    THEN RStrip(SubSeq(s, 1, Len(s) - 1)) ELSE s

\* str.strip()
Strip(s) == RStrip(LStrip(s))

\* the nested normalize(text) of search
normalize(t) ==
    LET lowered == [i \in 1..Len(t) |-> ToLower(t[i])]
        cleaned == [i \in 1..Len(t) |->
                      IF lowered[i] \in LowerLetters \cup Digits \cup Whitespace
                      THEN lowered[i] ELSE " "]
    IN Strip(CollapseWs(cleaned))

\* str.split(" "): cut at every single space; "" gives [""]
RECURSIVE SplitSpace(_, _)
SplitSpace(s, cur) ==
    IF s = <<>> THEN <<cur>>
    ELSE IF s[1] = " " THEN <<cur>> \o SplitSpace(Tail(s), <<>>)
         ELSE SplitSpace(Tail(s), Append(cur, s[1]))

\* the token list kept as it is, repeats included: not what the code does
Dedup_keepAll(s, seen) == s

\* list(dict.fromkeys(tokens)): unique, first occurrence order
RECURSIVE Dedup(_, _)
Dedup(s, seen) ==
    IF s = <<>> THEN <<>>
    ELSE IF s[1] \in seen THEN Dedup(Tail(s), seen)
         ELSE <<s[1]>> \o Dedup(Tail(s), seen \cup {s[1]})

DocsShortWhitelist ==
    { <<"u","i">>, <<"o","s">>, <<"a","i">>, <<"l","l","m">>,
      <<"s","s","e">>, <<"u","x">> }

MastraShortWhitelist ==
    { <<"m","c","p">>, <<"a","i">>, <<"l","l","m">>, <<"a","p","i">>,
      <<"j","w","t">>, <<"c","l","i">>, <<"s","d","k">> }

KeepToken_len2(t, whitelist) == Len(t) >= 2 \/ t \in whitelist

KeepToken(t, whitelist) == Len(t) >= 3 \/ t \in whitelist

\* the nested tokenize(text) of search
tokenize(t, whitelist) ==
    SelectSeq(SplitSpace(normalize(t), <<>>),
              LAMBDA tok : KeepToken(tok, whitelist))

query_tokens(q, whitelist) == Dedup(tokenize(q, whitelist), {})

\* len(re.findall(rf"\b{token}\w*\b", s)): scan from position i; a match
\* starts at a word boundary, spells the token, takes the rest of the word,
\* and the scan resumes behind it
RECURSIVE WordEnd(_, _)
WordEnd(s, j) ==
    IF j < Len(s) /\ s[j + 1] \in WordChars THEN WordEnd(s, j + 1) ELSE j

MatchesAt(token, s, i) ==
    /\ i + Len(token) - 1 <= Len(s)
    /\ (i = 1 \/ s[i - 1] \notin WordChars)
    /\ SubSeq(s, i, i + Len(token) - 1) = token

RECURSIVE FindAllCount(_, _, _)
FindAllCount(token, s, i) ==
    IF i > Len(s) THEN 0
    ELSE IF MatchesAt(token, s, i)
         THEN 1 + FindAllCount(token, s, WordEnd(s, i + Len(token) - 1) + 1)
         ELSE FindAllCount(token, s, i + 1)

-----------------------------------------------------------------------------
(* Keyword scoring: DocsIndex.search and MastraDocsIndex.search *)
DocsHeadingWeight == 2
MastraHeadingWeight_two == DocsHeadingWeight
MastraHeadingWeight == 3
MastraSalientWeight == 2
ContentLimit == 2000

SalientTokens ==
    { <<"m","a","s","t","r","a">>, <<"a","g","e","n","t">>,
      <<"w","o","r","k","f","l","o","w">>, <<"t","o","o","l">>,
      <<"m","e","m","o","r","y">> }

heading_hits(token, chunk) ==
    FindAllCount(token, normalize(OrEmpty(chunk.heading)), 1)

body_hits(token, chunk) == FindAllCount(token, normalize(chunk.content), 1)

DocsTokenTotal_noboost(token, chunk) ==
    heading_hits(token, chunk) + body_hits(token, chunk)

\* token_total of DocsIndex.search
DocsTokenTotal(token, chunk) ==
    heading_hits(token, chunk) * DocsHeadingWeight + body_hits(token, chunk)

\* weight and token_total of MastraDocsIndex.search
MastraWeight(token) ==
    IF token \in SalientTokens THEN MastraSalientWeight ELSE 1

MastraTokenTotal(token, chunk) ==
    (heading_hits(token, chunk) * MastraHeadingWeight + body_hits(token, chunk))
        * MastraWeight(token)

TokenTotal(k, token, chunk) ==
    IF k = "docs" THEN DocsTokenTotal(token, chunk)
                  ELSE MastraTokenTotal(token, chunk)

\* token_hits: the tokens with token_total > 0, each with its total
token_hits(k, toks, chunk) ==
    [t \in {u \in Range(toks) : TokenTotal(k, u, chunk) > 0}
        |-> TokenTotal(k, t, chunk)]

RECURSIVE SumTotals(_, _, _)
SumTotals(k, toks, chunk) ==
    IF toks = <<>> THEN 0
    ELSE TokenTotal(k, toks[1], chunk) + SumTotals(k, Tail(toks), chunk)

\* chunk_score: the running sum over the query tokens
chunk_score(k, toks, chunk) == SumTotals(k, toks, chunk)

\* the loop over self.chunks: scored, in chunk order, score > 0 only
RECURSIVE scored(_, _, _)
scored(k, toks, chs) ==
    IF chs = <<>> THEN <<>>
    ELSE LET c == chs[1]
             e == [score |-> chunk_score(k, toks, c), chunk |-> c,
                   hits |-> token_hits(k, toks, c)]
         IN (IF e.score > 0 THEN <<e>> ELSE <<>>) \o scored(k, toks, Tail(chs))

\* the sort key (x[0], len(x[2])), compared as Python compares tuples
KeyLess(a, b) ==
    \/ a.score < b.score
    \/ a.score = b.score /\ Cardinality(DOMAIN a.hits) < Cardinality(DOMAIN b.hits)

\* list.sort(key=..., reverse=True): descending and stable, so an element
\* goes behind every element whose key is not smaller than its own
RECURSIVE InsertDesc(_, _)
InsertDesc(sorted, e) ==
    IF sorted = <<>> THEN <<e>>
    ELSE IF KeyLess(sorted[1], e) THEN <<e>> \o sorted
         ELSE <<sorted[1]>> \o InsertDesc(Tail(sorted), e)

RECURSIVE SortDesc(_, _)
SortDesc(s, acc) ==
    IF s = <<>> THEN acc ELSE SortDesc(Tail(s), InsertDesc(acc, s[1]))

DocsTop_unclamped(sc, l) == PySliceTo(sc, l)

\* top = scored[: max(0, int(limit))]
DocsTop(sc, l) == PySliceTo(sc, Max(0, l))

\* top = scored[:limit]
MastraTop(sc, l) == PySliceTo(sc, l)

\* a result holding the whole content of its chunk: not what the code does
Entry_whole(e) ==
    [source |-> e.chunk.source,
     heading |-> e.chunk.heading,
     content |-> e.chunk.content,
     matchCount |-> e.score,
     matchedTokens |-> e.hits,
     url |-> e.chunk.url,
     section |-> e.chunk.section]

\* the dict built for one element of top
Entry(e) ==
    [source |-> e.chunk.source,
     heading |-> e.chunk.heading,
     content |-> SubSeq(e.chunk.content, 1, Min(Len(e.chunk.content), ContentLimit)),
     matchCount |-> e.score,
     matchedTokens |-> e.hits,
     url |-> e.chunk.url,
     section |-> e.chunk.section]

Results(top) == [i \in 1..Len(top) |-> Entry(top[i])]

Whitelist(k) == IF k = "docs" THEN DocsShortWhitelist ELSE MastraShortWhitelist

\* DocsIndex.search(query, limit)
DocsIndexSearch(chs, q, l) ==
    IF q = <<>> THEN <<>>
    ELSE LET toks == query_tokens(q, DocsShortWhitelist)
         IN IF toks = <<>> THEN <<>>
            ELSE Results(DocsTop(SortDesc(scored("docs", toks, chs), <<>>), l))

\* MastraDocsIndex.search(query, limit)
MastraDocsIndexSearch(chs, q, l) ==
    IF q = <<>> THEN <<>>
    ELSE LET toks == query_tokens(q, MastraShortWhitelist)
         IN IF toks = <<>> THEN <<>>
            ELSE Results(MastraTop(SortDesc(scored("mastra", toks, chs), <<>>), l))

-----------------------------------------------------------------------------
(* Sample texts, chunks and queries *)
T_StreamingSetup == <<"S", "t", "r", "e", "a", "m", "i", "n", "g", " ", "S", "e", "t", "u", "p">>
T_ConfigureSSE == <<"c", "o", "n", "f", "i", "g", "u", "r", "e", " ", "S", "S", "E", " ", "e", "n", "d", "p", "o", "i", "n", "t">>
T_Other == <<"O", "t", "h", "e", "r">>
T_Streaming3 == <<"s", "t", "r", "e", "a", "m", "i", "n", "g", " ", "s", "t", "r", "e", "a", "m", "i", "n", "g", " ", "s", "t", "r", "e", "a", "m", "i", "n", "g", " ", "t", "e", "x", "t">>
T_AgentTools == <<"A", "g", "e", "n", "t", " ", "T", "o", "o", "l", "s">>
T_AgentBody == <<"a", "n", " ", "a", "g", "e", "n", "t", " ", "u", "s", "e", "s", " ", "t", "o", "o", "l", "s", ";", " ", "a", "g", "e", "n", "t", "s", " ", "c", "a", "l", "l", " ", "a", " ", "t", "o", "o", "l">>
T_Intro == <<"s", "t", "r", "e", "a", "m", "i", "n", "g", " ", "u", "i", " ", "f", "o", "r", " ", "a", "g", "e", "n", "t", "s">>

Q_streaming == <<"s", "t", "r", "e", "a", "m", "i", "n", "g">>
Q_empty == <<>>
Q_blank == <<" ", " ", "\t">>
Q_punct == <<"?", "!", "-">>
Q_short == <<"a", " ", "a", "n">>
Q_ui == <<"u", "i">>
Q_agent_tool == <<"A", "g", "e", "n", "t", " ", "t", "o", "o", "l">>
Q_dup == <<"s", "t", "r", "e", "a", "m", "i", "n", "g", " ", "S", "T", "R", "E", "A", "M", "I", "N", "G">>
Q_sse == <<"S", "S", "E", "_", "e", "n", "d", ".", "t", "e", "x", "t">>

Queries == {Q_streaming, Q_empty, Q_blank, Q_punct, Q_short, Q_ui,
            Q_agent_tool, Q_dup, Q_sse}

\* limit: int = 5, the default of search
DefaultLimit == 5

Limits == ((0 - MaxNegLimit)..MaxLimit) \cup {DefaultLimit}

Chunk(src, h, c) ==
    [source |-> src, heading |-> h, content |-> c, url |-> None, section |-> None]

ChunkStreamingSetup(src) == Chunk(src, Some(T_StreamingSetup), T_ConfigureSSE)
ChunkOther(src) == Chunk(src, Some(T_Other), T_Streaming3)

\* DocChunk values: a heading may be None (text before the first heading)
DocsPool ==
    { ChunkStreamingSetup("docs.md"), ChunkOther("docs.md"),
      Chunk("docs.md", None, T_Intro) }

\* MastraDocChunk values: _parse_mastra_docs keeps only chunks with a heading
MastraPool ==
    { ChunkStreamingSetup("mastra.txt"), ChunkOther("mastra.txt"),
      Chunk("mastra.txt", Some(T_AgentTools), T_AgentBody) }

Corpora(pool) == UNION {[1..n -> pool] : n \in 0..MaxChunks}

-----------------------------------------------------------------------------
(* The search calls *)
SearchIdle ==
    /\ query = <<>> /\ limit = 0 /\ result = <<>> /\ pc = "idle"

SplitIdle == text = <<>> /\ sections = <<>> /\ splitPc = "off"

SemIdle ==
    /\ openai = FALSE /\ semPc = "off" /\ semQuery = <<>> /\ semLimit = 0
    /\ semResult = <<>> /\ semRaised = FALSE
    /\ semLog = <<>> /\ semFellBack = FALSE

LoadIdle == files = <<>> /\ loadPos = 0 /\ loadRaised = FALSE

ParseIdle == mdText = <<>> /\ parsePc = "off"

SelIdle ==
    /\ selQuery = <<>> /\ selDocType = "auto" /\ selSearched = "none"
    /\ hasCedar = FALSE /\ hasMastra = FALSE /\ selPc = "off"

ConcIdle == built = <<>> /\ calls = <<>>

\* the later components at rest
ResIdle ==
    topList = <<>> /\ entries = <<>> /\ resPc = "off"
ClarIdle ==
    confirmations = <<>> /\ clarIndex = <<>> /\ validation = <<>>
    /\ clarPc = "off"
GateIdle ==
    requirements_confirmed = FALSE /\ gateIndex = <<>> /\ lastCall = <<>>
    /\ lastConfirm = <<>>
WizIdle ==
    sessions = <<>> /\ wizAsked = <<>> /\ wizAnswered = <<>> /\ wizRet = <<>>
SseIdle ==
    sse_connections = {} /\ sseQueue = <<>> /\ ssePc = <<>>
    /\ sseEmitted = <<>> /\ postBodies = <<>> /\ issued = 0
FetchIdle ==
    outFile = <<>> /\ metaFile = <<>> /\ clock = 0 /\ lastRun = <<>>
LateIdle ==
    /\ ResIdle
    /\ ClarIdle
    /\ GateIdle
    /\ WizIdle
    /\ SseIdle
    /\ FetchIdle

ExtIdle == LoadIdle /\ ParseIdle /\ SelIdle /\ ConcIdle /\ LateIdle

\* all components at rest but one later component
ResOthersIdle ==
    /\ kind = "docs" /\ chunks = <<>> /\ SearchIdle
    /\ SplitIdle
    /\ SemIdle
    /\ LoadIdle
    /\ ParseIdle
    /\ SelIdle
    /\ ConcIdle
    /\ ClarIdle
    /\ GateIdle
    /\ WizIdle
    /\ SseIdle
    /\ FetchIdle
ClarOthersIdle ==
    /\ kind = "docs" /\ chunks = <<>> /\ SearchIdle
    /\ SplitIdle
    /\ SemIdle
    /\ LoadIdle
    /\ ParseIdle
    /\ SelIdle
    /\ ConcIdle
    /\ ResIdle
    /\ GateIdle
    /\ WizIdle
    /\ SseIdle
    /\ FetchIdle
GateOthersIdle ==
    /\ kind = "docs" /\ chunks = <<>> /\ SearchIdle
    /\ SplitIdle
    /\ SemIdle
    /\ LoadIdle
    /\ ParseIdle
    /\ SelIdle
    /\ ConcIdle
    /\ ResIdle
    /\ ClarIdle
    /\ WizIdle
    /\ SseIdle
    /\ FetchIdle
WizOthersIdle ==
    /\ kind = "docs" /\ chunks = <<>> /\ SearchIdle
    /\ SplitIdle
    /\ SemIdle
    /\ LoadIdle
    /\ ParseIdle
    /\ SelIdle
    /\ ConcIdle
    /\ ResIdle
    /\ ClarIdle
    /\ GateIdle
    /\ SseIdle
    /\ FetchIdle
SseOthersIdle ==
    /\ kind = "docs" /\ chunks = <<>> /\ SearchIdle
    /\ SplitIdle
    /\ SemIdle
    /\ LoadIdle
    /\ ParseIdle
    /\ SelIdle
    /\ ConcIdle
    /\ ResIdle
    /\ ClarIdle
    /\ GateIdle
    /\ WizIdle
    /\ FetchIdle
FetchOthersIdle ==
    /\ kind = "docs" /\ chunks = <<>> /\ SearchIdle
    /\ SplitIdle
    /\ SemIdle
    /\ LoadIdle
    /\ ParseIdle
    /\ SelIdle
    /\ ConcIdle
    /\ ResIdle
    /\ ClarIdle
    /\ GateIdle
    /\ WizIdle
    /\ SseIdle

InitSearch ==
    /\ kind \in {"docs", "mastra"}
    /\ chunks \in Corpora(IF kind = "docs" THEN DocsPool ELSE MastraPool)
    /\ SearchIdle
    /\ SplitIdle
    /\ SemIdle
    /\ ExtIdle

\* a caller awaits DocsIndex.search(q, l) on a DocsIndex
DocsSearch(q, l) ==
    /\ pc = "idle" /\ kind = "docs"
    /\ query' = q /\ limit' = l
    /\ result' = DocsIndexSearch(chunks, q, l)
    /\ pc' = "returned"
    /\ UNCHANGED <<kind, chunks, splitVars, semVars, extVars>>

\* a caller awaits MastraDocsIndex.search(q, l) on a MastraDocsIndex
MastraSearch(q, l) ==
    /\ pc = "idle" /\ kind = "mastra"
    /\ query' = q /\ limit' = l
    /\ result' = MastraDocsIndexSearch(chunks, q, l)
    /\ pc' = "returned"
    /\ UNCHANGED <<kind, chunks, splitVars, semVars, extVars>>

\* the caller has taken the list; the index is ready for the next call
SearchDone ==
    /\ pc = "returned"
    /\ query' = <<>> /\ limit' = 0 /\ result' = <<>> /\ pc' = "idle"
    /\ UNCHANGED <<kind, chunks, splitVars, semVars, extVars>>

NextSearch ==
    \/ \E q \in Queries, l \in Limits : DocsSearch(q, l)
    \/ \E q \in Queries, l \in Limits : MastraSearch(q, l)
    \/ SearchDone

SpecSearch == InitSearch /\ [][NextSearch]_vars

-----------------------------------------------------------------------------
(* Properties of the keyword search *)
Returned == pc = "returned"

SameChunk(e, c) ==
    e.source = c.source /\ e.heading = c.heading /\ e.content = c.content

\* the chunks of the index that some query token hits, in load order
Matching == scored(kind, query_tokens(query, Whitelist(kind)), chunks)

\* C1: for every query and every integer limit, zero and negative included,
\* DocsIndex.search returns at most max(limit, 0) entries.
C1_DocsLengthAtMostLimit ==
    (Returned /\ kind = "docs") => Len(result) <= Max(limit, 0)

C1_Witness ==
    Returned /\ kind = "docs" /\ limit < 0 /\ Len(Matching) >= 2

\* C2: MastraDocsIndex.search returns the empty list whenever limit <= 0,
\* whatever chunks match the query.
C2_MastraEmptyForNonPositiveLimit ==
    (Returned /\ kind = "mastra" /\ limit <= 0) => result = <<>>

\* the rank of a matching chunk: 1 + the number of matching chunks that go
\* before it (higher score; or equal score and more distinct matched tokens;
\* or equal on both and earlier in the chunk list)
Before(m, j, i) ==
    \/ m[j].score > m[i].score
    \/ m[j].score = m[i].score
         /\ Cardinality(DOMAIN m[j].hits) > Cardinality(DOMAIN m[i].hits)
    \/ m[j].score = m[i].score
         /\ Cardinality(DOMAIN m[j].hits) = Cardinality(DOMAIN m[i].hits)
         /\ j < i

Rank(m, i) == 1 + Cardinality({j \in 1..Len(m) : Before(m, j, i)})

Ranked(m) == [r \in 1..Len(m) |-> m[CHOOSE i \in 1..Len(m) : Rank(m, i) = r]]

FirstN(s, n) == SubSeq(s, 1, Min(Max(n, 0), Len(s)))

\* C3: the list returned by either search is exactly the first `limit`
\* entries of the chunks with score > 0 ordered by score descending, then by
\* number of distinct matched tokens descending, ties in load order.
C3_FirstLimitOfRanking ==
    Returned => result = Results(FirstN(Ranked(Matching), limit))

ScenarioCorpus ==
    IF kind = "docs"
    THEN <<ChunkStreamingSetup("docs.md"), ChunkOther("docs.md")>>
    ELSE <<ChunkStreamingSetup("mastra.txt"), ChunkOther("mastra.txt")>>

Scenario ==
    /\ Returned /\ chunks = ScenarioCorpus
    /\ query = Q_streaming /\ limit = DefaultLimit

\* C4 as stated: on the two-chunk corpus, search("streaming", 5) under the
\* default weights of the index returns "Streaming Setup" first.
C4_StreamingSetupFirst ==
    Scenario => (result # <<>> /\ result[1].heading = Some(T_StreamingSetup))

\* C4 amended: on that corpus search("streaming", 5) returns both chunks;
\* MastraDocsIndex (heading weight 3: scores 3 and 3, load order decides)
\* returns "Streaming Setup" first, DocsIndex (heading weight 2: scores 2
\* and 3) returns "Other" first.
C4_FirstByIndexWeights ==
    Scenario =>
        /\ Len(result) = 2
        /\ kind = "mastra" =>
             /\ result[1].heading = Some(T_StreamingSetup)
             /\ result[1].matchCount = 3 /\ result[2].matchCount = 3
        /\ kind = "docs" =>
             /\ result[1].heading = Some(T_Other)
             /\ result[1].matchCount = 3 /\ result[2].matchCount = 2

C4_Witness ==
    Scenario /\ kind = "mastra" /\ result[1].heading = Some(T_StreamingSetup)

\* the words of a normalized text, and how many of them start with a token
Words(t) == SplitSpace(normalize(t), <<>>)

StartsWith(w, tok) == Len(tok) <= Len(w) /\ SubSeq(w, 1, Len(tok)) = tok

WordsStarting(t, tok) ==
    Cardinality({i \in 1..Len(Words(t)) : StartsWith(Words(t)[i], tok)})

ClaimedTerm(k, tok, c) ==
    IF k = "docs"
    THEN (2 * WordsStarting(OrEmpty(c.heading), tok) + WordsStarting(c.content, tok)) * 1
    ELSE (3 * WordsStarting(OrEmpty(c.heading), tok) + WordsStarting(c.content, tok))
           * (IF tok \in SalientTokens THEN 2 ELSE 1)

RECURSIVE ClaimedSum(_, _, _)
ClaimedSum(k, toks, c) ==
    IF toks = {} THEN 0
    ELSE LET t == CHOOSE u \in toks : TRUE
         IN ClaimedTerm(k, t, c) + ClaimedSum(k, toks \ {t}, c)

DistinctTokens == Range(tokenize(query, Whitelist(kind)))

\* C5: every returned entry belongs to a chunk whose weighted sum over the
\* distinct query tokens (heading weight 2 / salience 1 in DocsIndex, heading
\* weight 3 / salience 2 for mastra, agent, workflow, tool, memory in
\* MastraDocsIndex) is its matchCount, matchedTokens holds each token's
\* term, and the sum is never 0.
C5_ScoreIsWeightedSum ==
    Returned =>
        \A i \in 1..Len(result) :
            \E j \in 1..Len(chunks) :
                /\ SameChunk(result[i], chunks[j])
                /\ result[i].matchCount = ClaimedSum(kind, DistinctTokens, chunks[j])
                /\ result[i].matchCount > 0
                /\ DOMAIN result[i].matchedTokens =
                     {t \in DistinctTokens : ClaimedTerm(kind, t, chunks[j]) > 0}
                /\ \A t \in DOMAIN result[i].matchedTokens :
                     result[i].matchedTokens[t] = ClaimedTerm(kind, t, chunks[j])

C5_Witness ==
    /\ Returned /\ kind = "mastra" /\ query = Q_agent_tool
    /\ result # <<>> /\ result[1].matchCount = 20

\* normalization leaves no token: every word of the normalized query is
\* shorter than 3 characters and not on the allow-list of the index
NoToken ==
    \A w \in Range(Words(query)) : Len(w) < 3 /\ w \notin Whitelist(kind)

\* C6: both searches return [] for any limit when the query is empty or
\* normalization leaves no token.
C6_EmptyWhenNoToken ==
    (Returned /\ (query = <<>> \/ NoToken)) => result = <<>>

C6_Witness ==
    /\ Returned /\ query = Q_short /\ NoToken /\ limit > 0
    /\ \E j \in 1..Len(chunks) : chunks[j].content = T_AgentBody

-----------------------------------------------------------------------------
(* Chunk extraction: DocsIndex._split_markdown *)

\* str.splitlines(): the lines between line feeds; no empty last line
RECURSIVE UpToNewline(_)
UpToNewline(s) ==
    IF s = <<>> \/ s[1] = "\n" THEN <<>> ELSE <<s[1]>> \o UpToNewline(Tail(s))

RECURSIVE SplitLines(_)
SplitLines(s) ==
    IF s = <<>> THEN <<>>
    ELSE LET line == UpToNewline(s)
             rest == SubSeq(s, Len(line) + 2, Len(s))
         IN <<line>> \o SplitLines(rest)

\* line.startswith("#")
IsHeadingLine(line) == line # <<>> /\ line[1] = "#"

\* line.lstrip("# "): drop the leading characters that are '#' or ' '
RECURSIVE LStripHashSpace(_)
LStripHashSpace(s) ==
    IF s # <<>> /\ s[1] \in {"#", " "} THEN LStripHashSpace(Tail(s)) ELSE s

\* "\n".join(lines)
RECURSIVE JoinLines(_)
JoinLines(ls) ==
    IF ls = <<>> THEN <<>>
    ELSE IF Len(ls) = 1 THEN ls[1]
         ELSE ls[1] \o <<"\n">> \o JoinLines(Tail(ls))

\* the flush "if buffer: sections.append((current_heading, buffer))"
Flush(secs, heading, buffer) ==
    IF buffer # <<>> THEN Append(secs, [heading |-> heading, buffer |-> buffer])
                     ELSE secs

\* the for loop over the lines and the flush behind it
RECURSIVE SplitLoop(_, _, _, _)
SplitLoop(ls, secs, current_heading, buffer) ==
    IF ls = <<>> THEN Flush(secs, current_heading, buffer)
    ELSE IF IsHeadingLine(ls[1])
         THEN SplitLoop(Tail(ls), Flush(secs, current_heading, buffer),
                        Some(LStripHashSpace(ls[1])), <<>>)
         ELSE SplitLoop(Tail(ls), secs, current_heading, Append(buffer, ls[1]))

\* DocsIndex._split_markdown(text): the list of (heading, content) pairs
split_markdown(t) ==
    LET secs == SplitLoop(SplitLines(t), <<>>, None, <<>>)
    IN [i \in 1..Len(secs) |->
          [heading |-> secs[i].heading,
           content |-> Strip(JoinLines(secs[i].buffer))]]

SplitAlphabet == {"#", " ", "a", "\n"}

Texts == UNION {[1..n -> SplitAlphabet] : n \in 0..MaxTextLen}

InitSplit ==
    /\ text \in Texts /\ sections = <<>> /\ splitPc = "ready"
    /\ kind = "docs" /\ chunks = <<>> /\ SearchIdle
    /\ SemIdle
    /\ ExtIdle

\* _load hands the text of a file to _split_markdown
SplitMarkdown ==
    /\ splitPc = "ready"
    /\ sections' = split_markdown(text)
    /\ splitPc' = "done"
    /\ UNCHANGED <<text, searchVars, semVars, extVars>>

NextSplit == SplitMarkdown

SpecSplit == InitSplit /\ [][NextSplit]_vars

\* the chunks the claim describes: one for the lines before the first
\* heading line (if there are any), then one per heading line, in line order,
\* each with the lines up to the next heading line as its body
HeadingLines(ls) == {i \in 1..Len(ls) : IsHeadingLine(ls[i])}

NextHeading(ls, i) ==
    IF \E j \in HeadingLines(ls) : j > i
    THEN CHOOSE j \in HeadingLines(ls) : j > i /\ \A k \in HeadingLines(ls) : k > i => j <= k
    ELSE Len(ls) + 1

BodyBetween(ls, i, j) == Strip(JoinLines(SubSeq(ls, i + 1, j - 1)))

RECURSIVE ClaimedFrom(_, _)
ClaimedFrom(ls, i) ==
    IF i > Len(ls) THEN <<>>
    ELSE <<[heading |-> Some(LStripHashSpace(ls[i])),
            content |-> BodyBetween(ls, i, NextHeading(ls, i))]>>
         \o ClaimedFrom(ls, NextHeading(ls, i))

ClaimedSections(t) ==
    LET ls == SplitLines(t)
        first == NextHeading(ls, 0)
    IN (IF first > 1
        THEN <<[heading |-> None, content |-> BodyBetween(ls, 0, first)]>>
        ELSE <<>>) \o ClaimedFrom(ls, first)

\* C10: every line that begins with '#' produces exactly one chunk (also
\* when no line follows it before the next heading or the end), the text
\* before the first heading produces one chunk with heading None, and the
\* chunks are in line order.
C10_OneChunkPerHeadingLine ==
    splitPc = "done" => sections = ClaimedSections(text)

-----------------------------------------------------------------------------
(* SemanticSearchService.search_by_vector and _direct_search *)

\* Rows of a remote response.  shape "ok": a dict with the expected keys;
\* "nokeys": a dict without them (item.get falls back to its defaults);
\* "bad": a value item.get or metadata.get raises on.  text, headers and
\* title are the query terms that occur in metadata.text, metadata.headers
\* and metadata.section_title; similarity is the value the RPC reports.
Row(shape, sim, txt, hdr, ttl) ==
    [shape |-> shape, similarity |-> sim, text |-> txt, headers |-> hdr,
     title |-> ttl]

VectorRowPool ==
    { Row("ok", 1, {}, {}, {}), Row("ok", 2, {}, {}, {}),
      Row("nokeys", 0, {}, {}, {}), Row("bad", 0, {}, {}, {}) }

TableRowPool ==
    { Row("ok", 0, {"a"}, {}, {}), Row("ok", 0, {"a", "b"}, {"a"}, {"b"}),
      Row("ok", 0, {}, {}, {}), Row("bad", 0, {}, {}, {}) }

Responses(pool) == UNION {[1..n -> pool] : n \in 0..MaxRows}

SemQueries == { <<>>, <<"a">>, <<"a", "b">> }

SemLimits == 1..MaxLimit

\* sum(1 for term in query_terms if term in text)
RECURSIVE CountIn(_, _)
CountIn(terms, present) ==
    IF terms = <<>> THEN 0
    ELSE (IF terms[1] \in present THEN 1 ELSE 0) + CountIn(Tail(terms), present)

\* relevance of _direct_search, times 2 * len(query_terms): matches / n,
\* plus (header_matches / n) * 0.5, plus (title_matches / n) * 0.5; 0 when
\* there is no query term
relevance(terms, row) ==
    IF terms = <<>> THEN 0
    ELSE 2 * CountIn(terms, row.text)
         + (IF row.headers # {} THEN CountIn(terms, row.headers) ELSE 0)
         + (IF row.title # {} THEN CountIn(terms, row.title) ELSE 0)

HasBadRow(data) == \E i \in 1..Len(data) : data[i].shape = "bad"

\* SemanticSearchResult(..., similarity=item.get('similarity', 0.0), ...)
VectorResult(row) ==
    [similarity |-> IF row.shape = "ok" THEN row.similarity ELSE 0, row |-> row]

\* SemanticSearchResult(..., similarity=relevance, ...)
TableResult(terms, row) == [similarity |-> relevance(terms, row), row |-> row]

\* results.sort(key=lambda x: x.similarity, reverse=True)
RECURSIVE InsertBySimilarity(_, _)
InsertBySimilarity(sorted, r) ==
    IF sorted = <<>> THEN <<r>>
    ELSE IF sorted[1].similarity < r.similarity THEN <<r>> \o sorted
         ELSE <<sorted[1]>> \o InsertBySimilarity(Tail(sorted), r)

RECURSIVE SortBySimilarity(_, _)
SortBySimilarity(s, acc) ==
    IF s = <<>> THEN acc
    ELSE SortBySimilarity(Tail(s), InsertBySimilarity(acc, s[1]))

DirectSearchOnError_reraise == [result |-> <<>>, raised |-> TRUE]

\* the except branch of _direct_search: log and return []
DirectSearchOnError == [result |-> <<>>, raised |-> FALSE]

\* the body of _direct_search given the outcome of the table query
direct_search(terms, l, out, data) ==
    IF out = "error" \/ HasBadRow(data) THEN DirectSearchOnError
    ELSE IF data = <<>> THEN [result |-> <<>>, raised |-> FALSE]
    ELSE [result |-> PySliceTo(SortBySimilarity(
                        [i \in 1..Len(data) |-> TableResult(terms, data[i])], <<>>), l),
          raised |-> FALSE]

\* what search_by_vector does with the RPC's response: "fallback" for the
\* except branch, otherwise the list it returns
vector_results(out, data) ==
    IF out = "error" \/ HasBadRow(data) THEN [fallback |-> TRUE, result |-> <<>>]
    ELSE IF data = <<>> THEN [fallback |-> FALSE, result |-> <<>>]
    ELSE [fallback |-> FALSE,
          result |-> [i \in 1..Len(data) |-> VectorResult(data[i])]]

Logged(op, out, data) == [op |-> op, out |-> out, data |-> data]

InitSemantic ==
    /\ openai \in BOOLEAN
    /\ semPc = "idle" /\ semQuery = <<>> /\ semLimit = 0
    /\ semResult = <<>> /\ semRaised = FALSE /\ semLog = <<>>
    /\ semFellBack = FALSE
    /\ kind = "docs" /\ chunks = <<>> /\ SearchIdle
    /\ SplitIdle
    /\ ExtIdle

\* "if not self.openai_client: return await self._direct_search(...)",
\* with the check left out: not what the code does
EntryStep_unchecked(client) == "embed"

\* "if not self.openai_client: return await self._direct_search(...)"
EntryStep(client) == IF client THEN "embed" ELSE "fallback"

\* _get_embedding raising, answered by another _get_embedding: not what
\* the code does
AfterEmbed_retry(out) == IF out = "ok" THEN "rpc" ELSE "embed"

\* where search_by_vector goes after _get_embedding: on to the RPC, or
\* through the except branch to _direct_search
AfterEmbed(out) == IF out = "ok" THEN "rpc" ELSE "fallback"

\* the except branch dropping the client (self.openai_client = None): not
\* what the code does
ClientAfterFallback_dropped(client) == FALSE

\* self.openai_client after _direct_search ran: no branch of
\* search_by_vector or _direct_search assigns it
ClientAfterFallback(client) == client

\* a caller awaits search_by_vector(query, limit=l); without an OpenAI
\* client the call goes to _direct_search at once
SemCall(q, l) ==
    /\ semPc = "idle"
    /\ semQuery' = q /\ semLimit' = l
    /\ semResult' = <<>> /\ semRaised' = FALSE /\ semLog' = <<>>
    /\ semPc' = EntryStep(openai)
    /\ UNCHANGED <<openai, semFellBack, searchVars, splitVars, extVars>>

\* self._get_embedding(query): the embedding request succeeds or raises
Embed(out) ==
    /\ semPc = "embed"
    /\ semLog' = Append(semLog, Logged("embed", out, <<>>))
    /\ semPc' = AfterEmbed(out)
    /\ semFellBack' = (semFellBack \/ out # "ok")
    /\ UNCHANGED <<openai, semQuery, semLimit, semResult, semRaised,
                   searchVars, splitVars, extVars>>

\* self.supabase.rpc('match_documents', ...).execute() and the loop over
\* response.data
Rpc(out, data) ==
    /\ semPc = "rpc"
    /\ semLog' = Append(semLog, Logged("rpc", out, data))
    /\ LET v == vector_results(out, data)
       IN /\ semPc' = IF v.fallback THEN "fallback" ELSE "returned"
          /\ semResult' = v.result
          /\ semFellBack' = (semFellBack \/ v.fallback)
    /\ UNCHANGED <<openai, semQuery, semLimit, semRaised, searchVars, splitVars,
                   extVars>>

\* _direct_search: the table query and the scan of its rows
DirectSearch(out, data) ==
    /\ semPc = "fallback"
    /\ semLog' = Append(semLog, Logged("table", out, data))
    /\ LET d == direct_search(semQuery, semLimit, out, data)
       IN /\ semResult' = d.result
          /\ semRaised' = d.raised
    /\ semPc' = "returned"
    /\ openai' = ClientAfterFallback(openai)
    /\ UNCHANGED <<semQuery, semLimit, semFellBack, searchVars, splitVars,
                   extVars>>

\* the caller has the list (or the exception); the service is ready again
SemReturn ==
    /\ semPc = "returned"
    /\ semPc' = "idle" /\ semQuery' = <<>> /\ semLimit' = 0
    /\ semResult' = <<>> /\ semRaised' = FALSE /\ semLog' = <<>>
    /\ UNCHANGED <<openai, semFellBack, searchVars, splitVars, extVars>>

NextSemantic ==
    \/ \E q \in SemQueries, l \in SemLimits : SemCall(q, l)
    \/ \E out \in {"ok", "error"} : Embed(out)
    \/ Rpc("error", <<>>)
    \/ \E data \in Responses(VectorRowPool) : Rpc("ok", data)
    \/ DirectSearch("error", <<>>)
    \/ \E data \in Responses(TableRowPool) : DirectSearch("ok", data)
    \/ SemReturn

SpecSemantic == InitSemantic /\ [][NextSemantic]_vars

-----------------------------------------------------------------------------
(* Properties of search_by_vector *)
SemReturned == semPc = "returned"

Issued(op) == {i \in 1..Len(semLog) : semLog[i].op = op}

Malformed(data) == \E i \in 1..Len(data) : data[i].shape # "ok"

EmbedFailed == \E i \in Issued("embed") : semLog[i].out = "error"

RpcFailed == \E i \in Issued("rpc") : semLog[i].out = "error"

RpcEmpty == \E i \in Issued("rpc") : semLog[i].out = "ok" /\ semLog[i].data = <<>>

RpcMalformed ==
    \E i \in Issued("rpc") : semLog[i].out = "ok" /\ Malformed(semLog[i].data)

TableFailed ==
    \E i \in Issued("table") :
        semLog[i].out = "error" \/ HasBadRow(semLog[i].data)

IsList(s) == DOMAIN s = 1..Len(s)

\* C7: search_by_vector never raises; whatever the embedding request, the
\* RPC and the table query do, it returns a list, and the list is empty when
\* both the vector path and the fallback query fail.
C7_NeverRaises ==
    SemReturned =>
        /\ semRaised = FALSE
        /\ IsList(semResult)
        /\ ((EmbedFailed \/ RpcFailed \/ RpcMalformed \/ ~openai) /\ TableFailed)
              => semResult = <<>>

C7_Witness ==
    /\ SemReturned /\ openai /\ RpcFailed /\ TableFailed
    /\ \E i \in Issued("table") : semLog[i].out = "error"

\* C8: with credentials configured, whenever the embedding request fails,
\* the RPC fails, the RPC returns an empty response or the RPC returns
\* malformed rows, the same call runs _direct_search and returns its result.
C8_FallbackOnEveryVectorTrouble ==
    (SemReturned /\ openai /\ (EmbedFailed \/ RpcFailed \/ RpcEmpty \/ RpcMalformed))
        => /\ Issued("table") # {}
           /\ \A i \in Issued("table") :
                semResult = direct_search(semQuery, semLimit, semLog[i].out,
                                          semLog[i].data).result

NonIncreasing(s) ==
    \A i, j \in 1..Len(s) : i < j => s[i].similarity >= s[j].similarity

\* C9: on every path search_by_vector returns at most `limit` results in
\* non-increasing order of similarity, whatever rows the remote returns.
C9_AtMostLimitSorted ==
    SemReturned => (Len(semResult) <= semLimit /\ NonIncreasing(semResult))

-----------------------------------------------------------------------------
(* DocsIndex._load: the files of docs_path become chunks *)
MaxFiles == 2

AllowedSuffixes == {".md", ".markdown", ".json", ".txt"}

\* an entry of docs_path.  read is the outcome of path.read_text, parse of
\* json.loads ("list" | "dict" | "invalid"); body is the text of a markdown
\* file, or the items of a JSON list
File(path, suffix, read, parse, body) ==
    [path |-> path, suffix |-> suffix, read |-> read, parse |-> parse,
     body |-> body]

\* a JSON item: a dict {heading?, content?}, or a value without .get
DictItem(h, c) == [isDict |-> TRUE, heading |-> h, content |-> c]
OtherItem == [isDict |-> FALSE, heading |-> None, content |-> <<>>]

T_HeadA == <<"#", " ", "a", "\n", "b">>

F_md == File("a.md", ".md", "ok", "none", T_HeadA)
F_md_unreadable == File("b.md", ".md", "error", "none", <<>>)
F_json ==
    File("c.json", ".json", "ok", "list",
         <<DictItem(Some(T_Other), T_Streaming3), DictItem(None, T_Intro)>>)
F_json_invalid == File("d.json", ".json", "ok", "invalid", <<>>)
F_json_partial ==
    File("e.json", ".json", "ok", "list",
         <<DictItem(Some(T_AgentTools), T_AgentBody), OtherItem>>)
F_json_dict == File("f.json", ".json", "ok", "dict", <<>>)
F_py == File("g.py", ".py", "ok", "none", T_HeadA)

FilePool == {F_md, F_md_unreadable, F_json, F_json_invalid, F_json_partial,
             F_json_dict, F_py}

\* directory listings: no path occurs twice
Listings ==
    {fs \in UNION {[1..n -> FilePool] : n \in 0..MaxFiles} :
        \A i, j \in 1..Len(fs) : i # j => fs[i].path # fs[j].path}

\* the chunks _load_builtin_docs seeds the index with (one stands for all)
BuiltinChunks == <<ChunkStreamingSetup("https://docs.cedarcopilot.com")>>

\* the except branch of _load_entry: return, keeping self.chunks as it is
LoadEntryOnError(chs) == [chunks |-> chs, raised |-> FALSE]

\* for item in data: self.chunks.append(DocChunk(..., item.get(...)))
RECURSIVE AppendItems(_, _, _)
AppendItems(chs, path, items) ==
    IF items = <<>> THEN [chunks |-> chs, raised |-> FALSE]
    ELSE IF ~items[1].isDict THEN LoadEntryOnError(chs)
    ELSE AppendItems(
             Append(chs, Chunk(path, items[1].heading, items[1].content)),
             path, Tail(items))

\* the nested _load_entry(path), applied to self.chunks = chs
load_entry(chs, f) ==
    IF f.suffix \notin AllowedSuffixes THEN [chunks |-> chs, raised |-> FALSE]
    ELSE IF f.read = "error" THEN LoadEntryOnError(chs)
    ELSE IF f.suffix = ".json"
         THEN IF f.parse = "invalid" THEN LoadEntryOnError(chs)
              ELSE IF f.parse = "list" THEN AppendItems(chs, f.path, f.body)
              ELSE [chunks |-> chs, raised |-> FALSE]
         ELSE LET secs == split_markdown(f.body)
              IN [chunks |-> chs \o [i \in 1..Len(secs) |->
                          Chunk(f.path, secs[i].heading, secs[i].content)],
                  raised |-> FALSE]

\* DocsIndex(docs_path): the built-in chunks are in, _load is about to run
InitLoad ==
    /\ files \in Listings /\ loadPos = 1 /\ loadRaised = FALSE
    /\ kind = "docs" /\ chunks = BuiltinChunks /\ SearchIdle
    /\ SplitIdle
    /\ SemIdle
    /\ ParseIdle
    /\ SelIdle
    /\ ConcIdle
    /\ LateIdle

\* one round of "for path in self.docs_path.rglob('*'): _load_entry(path)"
LoadEntry ==
    /\ loadPos \in 1..Len(files) /\ ~loadRaised
    /\ LET r == load_entry(chunks, files[loadPos])
       IN /\ chunks' = r.chunks
          /\ loadRaised' = r.raised
    /\ loadPos' = loadPos + 1
    /\ UNCHANGED <<files, kind, query, limit, result, pc, splitVars, semVars,
                   parseVars, selVars, concVars, lateVars>>

NextLoad == LoadEntry

SpecLoad == InitLoad /\ [][NextLoad]_vars

Loaded == loadPos = Len(files) + 1

\* what the claim calls a file that cannot be read, decoded or parsed
Recognised(f) == f.suffix \in AllowedSuffixes
FailedFile(f) ==
    /\ Recognised(f)
    /\ \/ f.read = "error"
       \/ f.suffix = ".json" /\ f.parse = "invalid"
       \/ f.suffix = ".json" /\ f.parse = "list"
             /\ \E i \in 1..Len(f.body) : ~f.body[i].isDict

FromFile(f) == {i \in 1..Len(chunks) : chunks[i].source = f.path}

\* the number of chunks a sound file holds
SoundCount(f) ==
    IF f.suffix = ".json"
    THEN (IF f.parse = "list" THEN Len(f.body) ELSE 0)
    ELSE Len(split_markdown(f.body))

\* C11: once _load has visited every entry, the constructor has not raised,
\* a file that could not be read, decoded or parsed (a JSON file failing
\* part-way through its items included) has no chunk in the index, and
\* every other recognised file has all of its chunks there.
C11_FailedFileContributesNothing ==
    Loaded =>
        /\ ~loadRaised
        /\ \A i \in 1..Len(files) :
              IF FailedFile(files[i]) THEN FromFile(files[i]) = {}
              ELSE Recognised(files[i]) =>
                      Cardinality(FromFile(files[i])) = SoundCount(files[i])

-----------------------------------------------------------------------------
(* MastraDocsIndex._parse_mastra_docs: the text of the file becomes chunks *)
MaxLines == 4

\* line.startswith(prefix)
startswith(line, prefix) ==
    Len(prefix) <= Len(line) /\ SubSeq(line, 1, Len(prefix)) = prefix

SourcePrefix ==
    <<"S", "o", "u", "r", "c", "e", ":", " ", "h", "t", "t", "p", "s", ":",
    "/", "/", "m", "a", "s", "t", "r", "a", ".", "a", "i", "/">>

SectionPrefix ==
    <<"[", "E", "N", "]", " ", "S", "o", "u", "r", "c", "e", ":">>

\* the length of "Source: ", which line[8:] removes
SourceLabelLen == 8

IsSourceLine(line) == startswith(line, SourcePrefix)
IsSectionLine(line) == startswith(line, SectionPrefix)

\* line.lstrip("#")
RECURSIVE LStripHash(_)
LStripHash(s) == IF s # <<>> /\ s[1] = "#" THEN LStripHash(Tail(s)) ELSE s

MastraChunk(src, h, c, url, section) ==
    [source |-> src, heading |-> Some(h), content |-> c,
     url |-> url, section |-> section]

\* the locals of the while loop, with self.chunks
ParseState(src, sec, h, buf, chs) ==
    [source |-> src, section |-> sec, heading |-> h, buffer |-> buf,
     chunks |-> chs]

\* the flush without the test of current_heading
FlushChunk_anyHeading(path, st, url, section) ==
    IF st.buffer # <<>>
    THEN LET content == Strip(JoinLines(st.buffer))
         IN IF content # <<>>
            THEN Append(st.chunks,
                        MastraChunk(path, OrEmpty(st.heading), content, url,
                                    section))
            ELSE st.chunks
    ELSE st.chunks

\* "if buffer and current_heading: content = ...; if content: append",
\* with the url and section the chunk is given
FlushChunk(path, st, url, section) ==
    IF st.buffer # <<>> /\ st.heading # None /\ st.heading[1] # <<>>
    THEN LET content == Strip(JoinLines(st.buffer))
         IN IF content # <<>>
            THEN Append(st.chunks,
                        MastraChunk(path, st.heading[1], content, url, section))
            ELSE st.chunks
    ELSE st.chunks

\* the branch of a "Source: https://mastra.ai/" line, current_source set
\* before the flush: not what the code does
SourceLineStep_setFirst(path, st, line) ==
    LET new == Some(Strip(SubSeq(line, SourceLabelLen + 1, Len(line))))
    IN ParseState(new, st.section, st.heading, <<>>,
                  FlushChunk(path, st, new, st.section))

\* the branch of a "Source: https://mastra.ai/" line
SourceLineStep(path, st, line) ==
    ParseState(Some(Strip(SubSeq(line, SourceLabelLen + 1, Len(line)))),
               st.section, st.heading, <<>>,
               FlushChunk(path, st, st.source, st.section))

\* the branch of a "[EN] Source:" line
SectionLineStep(path, st, line) ==
    ParseState(st.source, Some(line), st.heading, <<>>,
               FlushChunk(path, st, st.source, st.section))

\* the branch of a markdown heading line
HeadingLineStep(path, st, line) ==
    ParseState(st.source, st.section, Some(Strip(LStripHash(line))), <<>>,
               FlushChunk(path, st, st.source, st.section))

\* one round of the while loop
ParseLine(path, st, line) ==
    IF IsSourceLine(line) THEN SourceLineStep(path, st, line)
    ELSE IF IsSectionLine(line) THEN SectionLineStep(path, st, line)
    ELSE IF IsHeadingLine(line) THEN HeadingLineStep(path, st, line)
    ELSE [st EXCEPT !.buffer = Append(st.buffer, line)]

RECURSIVE ParseLoop(_, _, _)
ParseLoop(path, st, ls) ==
    IF ls = <<>> THEN FlushChunk(path, st, st.source, st.section)
    ELSE ParseLoop(path, ParseLine(path, st, ls[1]), Tail(ls))

\* _parse_mastra_docs(text) on self.chunks = chs
parse_mastra_docs(path, chs, t) ==
    ParseLoop(path, ParseState(None, None, None, <<>>, chs), SplitLines(t))

L_SourceA ==
    <<"S", "o", "u", "r", "c", "e", ":", " ", "h", "t", "t", "p", "s", ":",
    "/", "/", "m", "a", "s", "t", "r", "a", ".", "a", "i", "/", "a">>
L_SourceB ==
    <<"S", "o", "u", "r", "c", "e", ":", " ", "h", "t", "t", "p", "s", ":",
    "/", "/", "m", "a", "s", "t", "r", "a", ".", "a", "i", "/", "b", " ">>
L_Section ==
    <<"[", "E", "N", "]", " ", "S", "o", "u", "r", "c", "e", ":", " ", "x">>
L_Heading == <<"#", "#", " ", "H">>
L_Body == <<"t">>
L_Blank == <<" ">>
L_HeadingBare == <<"#">>
L_BodyP == <<"p">>

LinePool ==
    {L_SourceA, L_SourceB, L_Section, L_Heading, L_Body, L_Blank,
     L_HeadingBare, L_BodyP}

MastraTexts ==
    {JoinLines(ls) : ls \in UNION {[1..n -> LinePool] : n \in 0..MaxLines}}

MastraPath == "mastra.txt"

\* MastraDocsIndex(docs_path) on a readable file, before _load
InitParse ==
    /\ mdText \in MastraTexts /\ parsePc = "ready"
    /\ kind = "mastra" /\ chunks = <<>> /\ SearchIdle
    /\ SplitIdle
    /\ SemIdle
    /\ LoadIdle
    /\ SelIdle
    /\ ConcIdle
    /\ LateIdle

\* _load: text = read_text(); self._parse_mastra_docs(text)
MastraLoad ==
    /\ parsePc = "ready"
    /\ chunks' = parse_mastra_docs(MastraPath, chunks, mdText)
    /\ parsePc' = "done"
    /\ UNCHANGED <<mdText, kind, query, limit, result, pc, splitVars, semVars,
                   loadVars, selVars, concVars, lateVars>>

NextParse == MastraLoad

SpecParse == InitParse /\ [][NextParse]_vars

Parsed == parsePc = "done"

\* the claim's reading of the file, line by line
IsBodyLine(line) ==
    ~IsSourceLine(line) /\ ~IsSectionLine(line) /\ ~IsHeadingLine(line)

\* the index of the latest line before line a of the given sort, else 0
LatestSource(ls, a) ==
    LET js == {j \in 1..(a - 1) : IsSourceLine(ls[j])}
    IN IF js = {} THEN 0 ELSE CHOOSE j \in js : \A k \in js : k <= j
LatestSection(ls, a) ==
    LET js == {j \in 1..(a - 1) : IsSectionLine(ls[j])}
    IN IF js = {} THEN 0 ELSE CHOOSE j \in js : \A k \in js : k <= j
LatestHeading(ls, a) ==
    LET js == {j \in 1..(a - 1) :
                  IsHeadingLine(ls[j]) /\ ~IsSourceLine(ls[j])
                                       /\ ~IsSectionLine(ls[j])}
    IN IF js = {} THEN 0 ELSE CHOOSE j \in js : \A k \in js : k <= j

\* the last line of the run of body lines that starts at line a
RECURSIVE RunEnd(_, _)
RunEnd(ls, a) ==
    IF a < Len(ls) /\ IsBodyLine(ls[a + 1]) THEN RunEnd(ls, a + 1) ELSE a

SourceValue(line) == Strip(SubSeq(line, 9, Len(line)))
HeadingValue(line) == Strip(LStripHash(line))

\* the chunk the claim gives to the body lines a..b, if any
ClaimedChunk(path, ls, a, b) ==
    LET h == LatestHeading(ls, a)
        u == LatestSource(ls, a)
        s == LatestSection(ls, a)
        content == Strip(JoinLines(SubSeq(ls, a, b)))
    IN IF h = 0 \/ HeadingValue(ls[IF h = 0 THEN 1 ELSE h]) = <<>>
          \/ content = <<>>
       THEN <<>>
       ELSE << [source |-> path,
                heading |-> Some(HeadingValue(ls[h])),
                content |-> content,
                url |-> IF u = 0 THEN None ELSE Some(SourceValue(ls[u])),
                section |-> IF s = 0 THEN None ELSE Some(ls[s])] >>

RECURSIVE ClaimedChunksFrom(_, _, _)
ClaimedChunksFrom(path, ls, a) ==
    IF a > Len(ls) THEN <<>>
    ELSE IF IsBodyLine(ls[a])
         THEN ClaimedChunk(path, ls, a, RunEnd(ls, a))
                 \o ClaimedChunksFrom(path, ls, RunEnd(ls, a) + 1)
         ELSE ClaimedChunksFrom(path, ls, a + 1)

-----------------------------------------------------------------------------
(* Citations of the results of MastraDocsIndex.search *)

\* the chunks of the pool hold their text on one line, so a token that
\* matches a result's chunk occurs on exactly one line of the loaded file
HasCitation(r) == "citation" \in DOMAIN r

\* C13: every result of a search over a locally loaded Mastra file has a
\* matched token and carries a citation whose start_line equals its
\* end_line when the token occurs on one line only; a chunk without a
\* match gives no result.
C13_ResultCarriesOneLineCitation ==
    (Returned /\ kind = "mastra") =>
        \A i \in 1..Len(result) :
            /\ result[i].matchCount > 0
            /\ HasCitation(result[i])
            /\ result[i].citation.start_line = result[i].citation.end_line

-----------------------------------------------------------------------------
(* SearchDocsTool: which index a searchDocs call searches *)

\* "sub in s" of Python strings
Contains(s, sub) ==
    \E i \in 1..(Len(s) - Len(sub) + 1) : SubSeq(s, i, i + Len(sub) - 1) = sub

\* str.lower()
Lower(s) == [i \in 1..Len(s) |-> ToLower(s[i])]

\* implementation_patterns, in the order of the dict
PatternKeys ==
    <<
      <<"f", "l", "o", "a", "t", "i", "n", "g", " ", "c", "h", "a", "t">>,
      <<"c", "h", "a", "t", " ", "c", "o", "m", "p", "o", "n", "e", "n",
      "t">>,
      <<"v", "o", "i", "c", "e", " ", "b", "u", "t", "t", "o", "n">>,
      <<"i", "m", "p", "o", "r", "t">>,
      <<"p", "r", "o", "p", "s">>,
      <<"h", "o", "o", "k">>,
      <<"p", "r", "o", "v", "i", "d", "e", "r">>,
      <<"s", "e", "t", "u", "p">>,
      <<"e", "x", "a", "m", "p", "l", "e">>
    >>

PatternEnhancements ==
    <<
      <<"C", "h", "a", "t", "I", "n", "p", "u", "t", " ", "C", "h", "a",
      "t", "M", "e", "s", "s", "a", "g", "e", " ", "f", "l", "o", "a", "t",
      "i", "n", "g", " ", "p", "o", "s", "i", "t", "i", "o", "n", " ", "f",
      "i", "x", "e", "d", " ", "i", "m", "p", "l", "e", "m", "e", "n", "t",
      "a", "t", "i", "o", "n">>,
      <<"C", "h", "a", "t", "I", "n", "p", "u", "t", " ", "C", "h", "a",
      "t", "M", "e", "s", "s", "a", "g", "e", " ", "u", "s", "e", "C", "e",
      "d", "a", "r", "S", "t", "o", "r", "e", " ", "i", "m", "p", "l", "e",
      "m", "e", "n", "t", "a", "t", "i", "o", "n", " ", "e", "x", "a", "m",
      "p", "l", "e">>,
      <<"V", "o", "i", "c", "e", "B", "u", "t", "t", "o", "n", " ", "V",
      "o", "i", "c", "e", "I", "n", "d", "i", "c", "a", "t", "o", "r", " ",
      "v", "o", "i", "c", "e", " ", "i", "m", "p", "l", "e", "m", "e", "n",
      "t", "a", "t", "i", "o", "n", " ", "p", "r", "o", "p", "s">>,
      <<"i", "m", "p", "o", "r", "t", " ", "f", "r", "o", "m", " ", "c",
      "e", "d", "a", "r", "-", "o", "s", " ", "@", "c", "e", "d", "a", "r",
      "-", "o", "s", "/", "r", "e", "a", "c", "t", " ", "@", "c", "e", "d",
      "a", "r", "-", "o", "s", "/", "c", "o", "r", "e">>,
      <<"i", "n", "t", "e", "r", "f", "a", "c", "e", " ", "p", "r", "o",
      "p", "s", " ", "T", "y", "p", "e", "S", "c", "r", "i", "p", "t", " ",
      "t", "y", "p", "e", " ", "p", "a", "r", "a", "m", "e", "t", "e", "r",
      "s">>,
      <<"u", "s", "e", "C", "e", "d", "a", "r", "S", "t", "o", "r", "e",
      " ", "u", "s", "e", "T", "y", "p", "e", "d", "A", "g", "e", "n", "t",
      "C", "o", "n", "n", "e", "c", "t", "i", "o", "n", " ", "h", "o", "o",
      "k", " ", "e", "x", "a", "m", "p", "l", "e">>,
      <<"C", "e", "d", "a", "r", "C", "o", "p", "i", "l", "o", "t", " ",
      "p", "r", "o", "v", "i", "d", "e", "r", " ", "w", "r", "a", "p", "p",
      "e", "r", " ", "c", "o", "n", "f", "i", "g", "u", "r", "a", "t", "i",
      "o", "n">>,
      <<"C", "e", "d", "a", "r", "C", "o", "p", "i", "l", "o", "t", " ",
      "i", "n", "i", "t", "i", "a", "l", " ", "c", "o", "n", "f", "i", "g",
      "u", "r", "a", "t", "i", "o", "n", " ", "l", "l", "m", "P", "r", "o",
      "v", "i", "d", "e", "r">>,
      <<"c", "o", "m", "p", "l", "e", "t", "e", " ", "w", "o", "r", "k",
      "i", "n", "g", " ", "e", "x", "a", "m", "p", "l", "e", " ", "i", "m",
      "p", "l", "e", "m", "e", "n", "t", "a", "t", "i", "o", "n", " ", "c",
      "o", "d", "e">>
    >>

W_implementation ==
    <<"i", "m", "p", "l", "e", "m", "e", "n", "t", "a", "t", "i", "o", "n">>
W_example ==
    <<"e", "x", "a", "m", "p", "l", "e">>
DefaultEnhancement ==
    <<" ", "i", "m", "p", "l", "e", "m", "e", "n", "t", "a", "t", "i", "o",
    "n", " ", "e", "x", "a", "m", "p", "l", "e", " ", "c", "o", "d", "e">>

\* SearchDocsTool._enhance_implementation_query
enhance_implementation_query(q) ==
    LET query_lower == Lower(q)
        hits == {i \in 1..Len(PatternKeys) :
                    Contains(query_lower, PatternKeys[i])}
    IN IF hits # {}
       THEN LET first == CHOOSE i \in hits : \A j \in hits : i <= j
            IN q \o <<" ">> \o PatternEnhancements[first]
       ELSE IF ~Contains(query_lower, W_implementation)
                 /\ ~Contains(query_lower, W_example)
            THEN q \o DefaultEnhancement
            ELSE q

mastra_keywords ==
    <<
      <<"m", "a", "s", "t", "r", "a">>,
      <<"a", "g", "e", "n", "t">>,
      <<"w", "o", "r", "k", "f", "l", "o", "w">>,
      <<"t", "o", "o", "l">>,
      <<"m", "e", "m", "o", "r", "y">>,
      <<"m", "c", "p">>,
      <<"j", "w", "t">>,
      <<"a", "u", "t", "h">>,
      <<"r", "u", "n", "t", "i", "m", "e">>,
      <<"c", "o", "n", "t", "e", "x", "t">>,
      <<"d", "i">>,
      <<"d", "e", "p", "e", "n", "d", "e", "n", "c", "y", " ", "i", "n",
      "j", "e", "c", "t", "i", "o", "n">>,
      <<"l", "i", "b", "s", "q", "l">>,
      <<"p", "o", "s", "t", "g", "r", "e", "s">>,
      <<"s", "e", "m", "a", "n", "t", "i", "c", " ", "r", "e", "c", "a",
      "l", "l">>,
      <<"w", "o", "r", "k", "i", "n", "g", " ", "m", "e", "m", "o", "r",
      "y">>
    >>

cedar_keywords ==
    <<
      <<"c", "e", "d", "a", "r">>,
      <<"v", "o", "i", "c", "e">>,
      <<"c", "h", "a", "t">>,
      <<"c", "o", "p", "i", "l", "o", "t">>,
      <<"m", "e", "n", "t", "i", "o", "n">>,
      <<"f", "l", "o", "a", "t", "i", "n", "g">>,
      <<"c", "h", "a", "t", "i", "n", "p", "u", "t">>,
      <<"v", "o", "i", "c", "e", "i", "n", "d", "i", "c", "a", "t", "o",
      "r">>,
      <<"v", "o", "i", "c", "e", "b", "u", "t", "t", "o", "n">>,
      <<"v", "o", "i", "c", "e", "s", "e", "t", "t", "i", "n", "g", "s">>,
      <<"a", "g", "e", "n", "t", "i", "c", " ", "s", "t", "a", "t", "e">>,
      <<"s", "p", "e", "l", "l">>,
      <<"u", "i">>,
      <<"f", "r", "o", "n", "t", "e", "n", "d">>,
      <<"r", "e", "a", "c", "t">>,
      <<"c", "o", "m", "p", "o", "n", "e", "n", "t">>
    >>

\* sum(1 for kw in keywords if kw in query_lower)
KeywordScore(keywords, query_lower) ==
    Cardinality({i \in 1..Len(keywords) : Contains(query_lower, keywords[i])})

\* SearchDocsTool._detect_doc_type
detect_doc_type(q) ==
    IF KeywordScore(mastra_keywords, Lower(q))
          > KeywordScore(cedar_keywords, Lower(q))
    THEN "mastra" ELSE "cedar"

\* handle, up to the choice of docs_index: the index that is searched, or
\* "none" when the chosen index is missing
SearchedIndex(q, doc_type, cedar_docs_index, mastra_docs_index) ==
    LET enhanced_query == enhance_implementation_query(q)
        dt == IF doc_type = "auto" THEN detect_doc_type(enhanced_query)
                                   ELSE doc_type
    IN IF dt = "mastra" /\ mastra_docs_index THEN "mastra"
       ELSE IF cedar_docs_index THEN "cedar" ELSE "none"

SQ_agent_hook ==
    <<"a", "g", "e", "n", "t", " ", "h", "o", "o", "k">>
SQ_mastra_workflow ==
    <<"m", "a", "s", "t", "r", "a", " ", "w", "o", "r", "k", "f", "l", "o",
    "w">>
SQ_voice_chat ==
    <<"v", "o", "i", "c", "e", " ", "c", "h", "a", "t">>
SQ_empty == <<>>
SQ_agent_voice ==
    <<"a", "g", "e", "n", "t", " ", "v", "o", "i", "c", "e">>
SQ_mastra_setup ==
    <<"M", "a", "s", "t", "r", "a", " ", "A", "g", "e", "n", "t", " ", "S",
    "E", "T", "U", "P">>
SQ_workflow_example ==
    <<"w", "o", "r", "k", "f", "l", "o", "w", " ", "e", "x", "a", "m", "p",
    "l", "e">>

SelQueries == {SQ_agent_hook, SQ_mastra_workflow, SQ_voice_chat, SQ_empty, SQ_agent_voice, SQ_mastra_setup, SQ_workflow_example}

DocTypes == {"auto", "cedar", "mastra"}

\* SearchDocsTool(cedar_docs_index, mastra_docs_index), either may be None,
\* and the arguments of the call of handle to come
InitSelect ==
    /\ selQuery \in SelQueries /\ selDocType \in DocTypes
    /\ hasCedar \in BOOLEAN /\ hasMastra \in BOOLEAN
    /\ selSearched = "none" /\ selPc = "ready"
    /\ kind = "docs" /\ chunks = <<>> /\ SearchIdle
    /\ SplitIdle
    /\ SemIdle
    /\ LoadIdle
    /\ ParseIdle
    /\ ConcIdle
    /\ LateIdle

\* SearchDocsTool.handle({"query": selQuery, "doc_type": selDocType})
Handle ==
    /\ selPc = "ready"
    /\ selSearched' = SearchedIndex(selQuery, selDocType, hasCedar, hasMastra)
    /\ selPc' = "done"
    /\ UNCHANGED <<selQuery, selDocType, hasCedar, hasMastra, searchVars,
                   splitVars, semVars, loadVars, parseVars, concVars,
                   lateVars>>

NextSelect == Handle

SpecSelect == InitSelect /\ [][NextSelect]_vars

Handled == selPc = "done"

\* the counts of the claim: keywords found in the caller's query
CallerMastraCount == KeywordScore(mastra_keywords, Lower(selQuery))
CallerCedarCount == KeywordScore(cedar_keywords, Lower(selQuery))

\* C14: for a tool holding both indexes, a call with doc_type "auto"
\* searches the Mastra index exactly when more Mastra keywords than Cedar
\* keywords occur in the caller's query (ties, zero included, go to Cedar),
\* and a call with doc_type pinned searches the pinned index.
C14_AutoSelectsByCallerQuery ==
    (Handled /\ hasCedar /\ hasMastra) =>
        IF selDocType = "auto"
        THEN selSearched =
                (IF CallerMastraCount > CallerCedarCount THEN "mastra"
                                                         ELSE "cedar")
        ELSE selSearched = selDocType

-----------------------------------------------------------------------------
(* Several callers of one index: search and describe calls in any order *)

\* the coroutines that await search or call describe on the one index
Callers == {"c1", "c2"}

RepeatQueries == {Q_streaming, Q_sse}
RepeatLimits == {1, MaxLimit}

\* search of the index object, by its class
IndexSearch(k, chs, q, l) ==
    IF k = "docs" THEN DocsIndexSearch(chs, q, l)
                  ELSE MastraDocsIndexSearch(chs, q, l)

\* describe(): num_chunks and the sorted set of source names (DocsIndex) or
\* of section names (MastraDocsIndex; a chunk without section adds none)
describe(k, chs) ==
    [num_chunks |-> Len(chs),
     names |-> IF k = "docs" THEN {chs[i].source : i \in 1..Len(chs)}
               ELSE {chs[i].section[1] :
                        i \in {j \in 1..Len(chs) : chs[j].section # None}}]

\* self.chunks after a search that sorted self.chunks itself by score:
\* not what the code does
ChunksAfterSearch_sortedInPlace(k, chs, q) ==
    LET toks == query_tokens(q, Whitelist(k))
        s == SortDesc(scored(k, toks, chs), <<>>)
    IN [i \in 1..Len(s) |-> s[i].chunk]
          \o SelectSeq(chs, LAMBDA c : chunk_score(k, toks, c) = 0)

\* self.chunks after a search that stored the normalized text back into
\* each chunk: not what the code does
ChunksAfterSearch_normalized(k, chs, q) ==
    [i \in 1..Len(chs) |-> [chs[i] EXCEPT !.content = normalize(@)]]

\* self.chunks after a search: the call builds and sorts its own list
\* `scored` and assigns nothing to self.chunks or to a chunk
ChunksAfterSearch(k, chs, q) == chs

NoCall ==
    [st |-> "none", op |-> "none", query |-> <<>>, limit |-> 0,
     result |-> <<>>]
Pending(q, l) ==
    [st |-> "pending", op |-> "search", query |-> q, limit |-> l,
     result |-> <<>>]
ReturnedCall(op, q, l, r) ==
    [st |-> "returned", op |-> op, query |-> q, limit |-> l, result |-> r]

\* an index after construction, and callers that have not called yet
InitConcurrent ==
    /\ kind \in {"docs", "mastra"}
    /\ chunks \in Corpora(IF kind = "docs" THEN DocsPool ELSE MastraPool)
    /\ built = chunks
    /\ calls = [c \in Callers |-> NoCall]
    /\ SearchIdle
    /\ SplitIdle
    /\ SemIdle
    /\ LoadIdle
    /\ ParseIdle
    /\ SelIdle
    /\ LateIdle

\* caller c creates the coroutine search(q, l); it has not run yet
Invoke(c, q, l) ==
    /\ calls[c].st # "pending"
    /\ calls' = [calls EXCEPT ![c] = Pending(q, l)]
    /\ UNCHANGED <<built, searchVars, splitVars, semVars, loadVars, parseVars,
                   selVars, lateVars>>

\* the event loop runs c's search: the body has no await, so it runs from
\* its first statement to its return without another call in between
RunSearch(c) ==
    /\ calls[c].st = "pending"
    /\ calls' = [calls EXCEPT ![c] =
                    ReturnedCall("search", calls[c].query, calls[c].limit,
                        IndexSearch(kind, chunks, calls[c].query,
                                    calls[c].limit))]
    /\ chunks' = ChunksAfterSearch(kind, chunks, calls[c].query)
    /\ UNCHANGED <<built, kind, query, limit, result, pc, splitVars, semVars,
                   loadVars, parseVars, selVars, lateVars>>

\* caller c calls describe()
Describe(c) ==
    /\ calls[c].st # "pending"
    /\ calls' = [calls EXCEPT ![c] =
                    ReturnedCall("describe", <<>>, 0, describe(kind, chunks))]
    /\ UNCHANGED <<built, searchVars, splitVars, semVars, loadVars, parseVars,
                   selVars, lateVars>>

NextConcurrent ==
    \/ \E c \in Callers, q \in RepeatQueries, l \in RepeatLimits :
          Invoke(c, q, l)
    \/ \E c \in Callers : RunSearch(c)
    \/ \E c \in Callers : Describe(c)

SpecConcurrent == InitConcurrent /\ [][NextConcurrent]_vars

SearchReturned(c) == calls[c].st = "returned" /\ calls[c].op = "search"

-----------------------------------------------------------------------------
(* The remote operations of one search_by_vector call, and of later calls *)

RemoteOps == {"embed", "rpc", "table"}

\* C17: in one search_by_vector call the embedding request, the RPC and the
\* fallback table query are each issued at most once, and a failed
\* embedding request or RPC is followed by the fallback query as the next
\* remote operation, never by a second attempt.
C17_EachRemoteOpOnceNoRetry ==
    /\ \A op \in RemoteOps : Cardinality(Issued(op)) <= 1
    /\ \A i \in 1..Len(semLog) :
          (semLog[i].op \in {"embed", "rpc"} /\ semLog[i].out = "error") =>
              IF i = Len(semLog) THEN semPc = "fallback"
              ELSE semLog[i + 1].op = "table"

\* a call whose RPC failed after a good embedding and that then ran the
\* fallback query
C17_Witness ==
    /\ SemReturned /\ RpcFailed
    /\ Len(semLog) = 3 /\ semLog[3].op = "table"

\* C18: a service without OpenAI key issues neither an embedding request
\* nor an RPC in any call; the call goes to the fallback query at once and
\* returns what _direct_search makes of its rows.
C18_NoKeyGoesStraightToFallback ==
    ~openai =>
        /\ Issued("embed") = {} /\ Issued("rpc") = {}
        /\ SemReturned =>
              /\ Len(semLog) = 1 /\ semLog[1].op = "table"
              /\ semResult = direct_search(semQuery, semLimit, semLog[1].out,
                                           semLog[1].data).result

\* a call without key that returned rows of the fallback query
C18_Witness == ~openai /\ SemReturned /\ semResult # <<>>

\* C19: after a call has fallen back the service is as it was: it still
\* holds its client, and each later call issues the embedding request
\* first and, when that succeeds, the RPC, before any fallback query.
C19_FallbackLeavesServiceAsItWas ==
    semFellBack =>
        /\ openai
        /\ semLog # <<>> => semLog[1].op = "embed"
        /\ \A i \in Issued("table") :
              /\ i > 1
              /\ semLog[1].out = "ok" => (i > 2 /\ semLog[2].op = "rpc")

\* a call made after an earlier call fell back has embedded the query and
\* stands before the RPC
C19_Witness == semFellBack /\ openai /\ semPc = "rpc"

-----------------------------------------------------------------------------
(* The token list of a query *)

\* the tokens search works with for the query of the call
QueryTokens == query_tokens(query, Whitelist(kind))

\* the position of the first word of the normalized query equal to tok
FirstOccurrence(tok) ==
    LET ws == Words(query)
        is == {i \in 1..Len(ws) : ws[i] = tok}
    IN IF is = {} THEN 0 ELSE CHOOSE i \in is : \A j \in is : i <= j

\* the query with all of its words said a second time
QueryTwice == query \o <<" ">> \o query

\* C20: the token list of a query has no token twice, keeps the tokens in
\* the order of their first occurrence in the query, and holds only tokens
\* of lower-case letters and digits that are at least 3 long or on the
\* index's allow-list; every such word of the query is in it; so saying
\* the words of the query a second time changes no result's score and not
\* the order of the results.
C20_TokensUniqueOrderedClean ==
    Returned =>
        /\ \A i, j \in 1..Len(QueryTokens) :
              i # j => QueryTokens[i] # QueryTokens[j]
        /\ \A i \in 1..Len(QueryTokens) :
              /\ Range(QueryTokens[i]) \subseteq LowerLetters \cup Digits
              /\ Len(QueryTokens[i]) >= 3
                    \/ QueryTokens[i] \in Whitelist(kind)
              /\ FirstOccurrence(QueryTokens[i]) > 0
        /\ \A i, j \in 1..Len(QueryTokens) :
              i < j => FirstOccurrence(QueryTokens[i])
                          < FirstOccurrence(QueryTokens[j])
        /\ \A i \in 1..Len(Words(query)) :
              (Len(Words(query)[i]) >= 3 \/ Words(query)[i] \in Whitelist(kind))
                 => Words(query)[i] \in Range(QueryTokens)
        /\ result = IndexSearch(kind, chunks, QueryTwice, limit)

\* a query that says one word twice, in two spellings, and finds a chunk
C20_Witness == Returned /\ query = Q_dup /\ Len(result) > 0

-----------------------------------------------------------------------------
(* The results built from the top of the ranking *)
MaxTop == 3
MaxScore == 2

\* a body longer than the payload limit, and one exactly as long
LongContent ==
    [i \in 1..(ContentLimit + 1) |->
        IF i <= Len(Q_streaming) THEN Q_streaming[i]
        ELSE IF i % 7 = 3 THEN " " ELSE "x"]
FullContent == SubSeq(LongContent, 1, ContentLimit)

\* what scoring leaves in `scored` for the query "streaming"
ScoredSamples(k) ==
    Range(scored(k, query_tokens(Q_streaming, Whitelist(k)),
                 <<ChunkStreamingSetup("docs.md"), ChunkOther("docs.md")>>))

\* elements of `scored` whose chunk has a long body: the score is positive
\* ("if chunk_score > 0: scored.append(...)")
LongSamples ==
    {[score |-> s, chunk |-> Chunk("long.md", Some(T_Other), c),
      hits |-> (Q_streaming :> s)] :
        s \in 1..MaxScore, c \in {LongContent, FullContent}}

TopPool == ScoredSamples("docs") \cup ScoredSamples("mastra") \cup LongSamples

\* `top` is a prefix of the list sorted by score, highest first
Tops ==
    {t \in UNION {[1..n -> TopPool] : n \in 0..MaxTop} :
        \A i \in 1..(Len(t) - 1) : t[i].score >= t[i + 1].score}

InitResults ==
    /\ topList \in Tops /\ entries = <<>> /\ resPc = "ready"
    /\ ResOthersIdle

\* "for score, c, hits in top: results.append({...})"
BuildResults ==
    /\ resPc = "ready"
    /\ entries' = Results(topList)
    /\ resPc' = "done"
    /\ UNCHANGED <<topList, resOthers>>

NextResults == BuildResults

SpecResults == InitResults /\ [][NextResults]_vars

\* C21: every result of a search has a matchCount of at least 0 and a
\* content of at most 2000 characters, which is the first 2000 characters
\* of its chunk's content (the whole content when that is shorter).
C21_ScoreNonNegativeContentCut ==
    resPc = "done" =>
        /\ Len(entries) = Len(topList)
        /\ \A i \in 1..Len(entries) :
              LET whole == topList[i].chunk.content
              IN /\ entries[i].matchCount >= 0
                 /\ Len(entries[i].content) <= 2000
                 /\ Len(entries[i].content) = Min(2000, Len(whole))
                 /\ entries[i].content
                       = SubSeq(whole, 1, Len(entries[i].content))

\* a result whose chunk is longer than 2000 characters
C21_Witness ==
    /\ resPc = "done"
    /\ \E i \in 1..Len(entries) :
          Len(topList[i].chunk.content) > 2000 /\ Len(entries[i].content) = 2000

-----------------------------------------------------------------------------
(* RequirementsClarifier: the setup checklist and validate_confirmations *)

\* the file name _docs_present looks for
CedarFileName ==
    <<"c", "e", "d", "a", "r", "_", "l", "l", "m", "s", "_", "f", "u", "l",
      "l", ".", "t", "x", "t">>

\* sources of chunks: the built-in page, the bundled file by absolute and by
\* relative path, another file whose name ends in the same letters, a guide
S_builtin ==
    <<"h", "t", "t", "p", "s", ":", "/", "/", "d", "o", "c", "s", ".", "c",
      "e", "d", "a", "r", "c", "o", "p", "i", "l", "o", "t", ".", "c", "o",
      "m">>
S_abs ==
    <<"/", "d", "/", "c", "e", "d", "a", "r", "_", "l", "l", "m", "s", "_",
      "f", "u", "l", "l", ".", "t", "x", "t">>
S_rel ==
    <<"c", "e", "d", "a", "r", "_", "l", "l", "m", "s", "_", "f", "u", "l",
      "l", ".", "t", "x", "t">>
S_old ==
    <<"/", "d", "/", "o", "l", "d", "_", "c", "e", "d", "a", "r", "_", "l",
      "l", "m", "s", "_", "f", "u", "l", "l", ".", "t", "x", "t">>
S_guide ==
    <<"/", "d", "/", "g", "u", "i", "d", "e", ".", "m", "d">>

\* the positions of "/" in a path
SlashPositions(s) == {i \in 1..Len(s) : s[i] = "/"}

\* Path(s).name: what follows the last "/"
PathName(s) ==
    IF SlashPositions(s) = {} THEN s
    ELSE LET last == CHOOSE i \in SlashPositions(s) :
                         \A j \in SlashPositions(s) : j <= i
         IN SubSeq(s, last + 1, Len(s))

\* describe()["sources"]: Path(c.source).name if c.source.startswith("/")
\* else c.source, as a set
DescribeSources(srcs) ==
    {IF startswith(s, <<"/">>) THEN PathName(s) ELSE s : s \in srcs}

\* _docs_present(): False without an index, else whether some reported
\* source contains the file name
docs_present(index) ==
    /\ index # None
    /\ \E s \in DescribeSources(index[1]) : Contains(s, CedarFileName)

ChecklistItem(id, required, detected) ==
    [id |-> id, required |-> required, detected |-> detected]

\* get_checklist(): the seven items in their order; only docs_loaded
\* carries "detected"
get_checklist(index) ==
    <<ChecklistItem("provider_config", TRUE, None),
      ChecklistItem("install_policy", TRUE, None),
      ChecklistItem("backend_routes", FALSE, None),
      ChecklistItem("sse_headers", FALSE, None),
      ChecklistItem("structured_outputs", TRUE, None),
      ChecklistItem("mentions_context", FALSE, None),
      ChecklistItem("docs_loaded", TRUE, Some(docs_present(index)))>>

\* bool(confirmations.get(item_id, False)), and for docs_loaded with a
\* detection the conjunction with it
is_confirmed(item, confs) ==
    LET got == IF item.id \in DOMAIN confs THEN confs[item.id] ELSE FALSE
    IN IF item.id = "docs_loaded" /\ item.detected # None
       THEN got /\ item.detected[1]
       ELSE got

IsMissing(item, confs) == item.required /\ ~is_confirmed(item, confs)

RECURSIVE MissingIds(_, _)
MissingIds(checklist, confs) ==
    IF checklist = <<>> THEN <<>>
    ELSE (IF IsMissing(Head(checklist), confs)
          THEN <<Head(checklist).id>> ELSE <<>>)
         \o MissingIds(Tail(checklist), confs)

validate_confirmations(confs, index) ==
    LET checklist == get_checklist(index)
        missing == MissingIds(checklist, confs)
    IN [satisfied |-> Len(missing) = 0,
        missing |-> missing,
        details |-> [i \in 1..Len(checklist) |->
                        [id |-> checklist[i].id,
                         required |-> checklist[i].required,
                         confirmed |-> is_confirmed(checklist[i], confs)]]]

ItemIds == {"provider_config", "install_policy", "backend_routes",
            "sse_headers", "structured_outputs", "mentions_context",
            "docs_loaded"}

\* maps from some of the ids to a boolean
ConfirmationMaps == UNION {[D -> BOOLEAN] : D \in SUBSET ItemIds}

\* no index, or the sources of its chunks
IndexPool ==
    {None, Some({S_builtin}), Some({S_builtin, S_abs}),
     Some({S_builtin, S_rel}), Some({S_builtin, S_old}),
     Some({S_builtin, S_guide})}

InitClarify ==
    /\ confirmations \in ConfirmationMaps
    /\ clarIndex \in IndexPool
    /\ validation = <<>>
    /\ clarPc = "ready"
    /\ ClarOthersIdle

Validate ==
    /\ clarPc = "ready"
    /\ validation' = validate_confirmations(confirmations, clarIndex)
    /\ clarPc' = "done"
    /\ UNCHANGED <<confirmations, clarIndex, clarOthers>>

NextClarify == Validate

SpecClarify == InitClarify /\ [][NextClarify]_vars

\* the caller marked the id true
Marked(id) == id \in DOMAIN confirmations /\ confirmations[id]

\* the index holds a chunk of a file (or page) called cedar_llms_full.txt
CedarFileIndexed ==
    /\ clarIndex # None
    /\ \E s \in clarIndex[1] : PathName(s) = CedarFileName

ClaimedRequired ==
    {"provider_config", "install_policy", "structured_outputs", "docs_loaded"}

\* a required id fails when it is not marked true, docs_loaded also when
\* the file is not indexed
ClaimedFailing ==
    {id \in ClaimedRequired :
        ~Marked(id) \/ (id = "docs_loaded" /\ ~CedarFileIndexed)}

\* C25: validate_confirmations answers satisfied exactly when the four
\* required ids are marked true and cedar_llms_full.txt is indexed, and
\* missing lists exactly the required ids that fail; the optional ids play
\* no part, and nothing the caller confirms opens the gate without the file
C25_SatisfiedIffRequiredAndFileIndexed ==
    clarPc = "done" =>
        /\ validation.satisfied <=> (ClaimedFailing = {})
        /\ Range(validation.missing) = ClaimedFailing
        /\ Len(validation.missing) = Cardinality(ClaimedFailing)

\* the same with the file test of the code: some reported source contains
\* the letters of the file name
C25_SatisfiedIffRequiredAndNameContained ==
    clarPc = "done" =>
        LET failing == {id \in ClaimedRequired :
                           ~Marked(id) \/ (id = "docs_loaded"
                                           /\ ~docs_present(clarIndex))}
        IN /\ validation.satisfied <=> (failing = {})
           /\ Range(validation.missing) = failing

-----------------------------------------------------------------------------
(* The requirements gate: handle_call_tool of the MCP server and
   _call_tool_with_server_logic of the web server, both acting on
   CedarModularMCPServer._requirements_confirmed *)

\* the keys of self.tool_handlers
tool_handlers ==
    {"searchDocs", "searchMastraDocs", "getRelevantFeature",
     "clarifyRequirements", "confirmRequirements", "checkInstall",
     "voiceSpecialist"}

\* allowed_preconfirm with getRelevantFeature let through as well
allowed_preconfirm_withFeature ==
    {"clarifyRequirements", "confirmRequirements", "searchDocs",
     "searchMastraDocs", "checkInstall", "voiceSpecialist",
     "getRelevantFeature"}

allowed_preconfirm ==
    {"clarifyRequirements", "confirmRequirements", "searchDocs",
     "searchMastraDocs", "checkInstall", "voiceSpecialist"}

\* the names enriched with a "not in docs" note, per server
ServerDocsTools == {"searchDocs", "searchMastraDocs", "getRelevantFeature"}
WebDocsTools ==
    {"searchDocs", "mastraSpecialist", "getRelevantFeature",
     "voiceSpecialist", "spellsSpecialist", "contextSpecialist"}

\* the JSON object a call returns: kind "tool" is a handler's payload,
\* "requirements_not_confirmed" the gate's message, "error" {"error": str(exc)}
Payload(k, sat, res, note, instr) ==
    [kind |-> k, satisfied |-> sat, results |-> res, note |-> note,
     instruction |-> instr]

GateMessage == Payload("requirements_not_confirmed", None, FALSE, FALSE, FALSE)
ErrorPayload(why) == Payload(why, None, FALSE, FALSE, FALSE)

\* what a handler did: raised, or returned one TextContent with a payload
HandlerRaised == [raised |-> TRUE, payload |-> ErrorPayload("error: handler")]
HandlerReturned(p) == [raised |-> FALSE, payload |-> p]

\* arguments of confirmRequirements: no "confirmations" key, a dict, or a
\* value that is no dict (a non-empty list)
NoConfirmations == [given |-> FALSE, dict |-> TRUE, map |-> <<>>]
DictConfirmations(f) == [given |-> TRUE, dict |-> TRUE, map |-> f]
ListConfirmations == [given |-> TRUE, dict |-> FALSE, map |-> <<>>]

\* ConfirmRequirementsTool.handle: nothing confirmed answers satisfied
\* False; otherwise the validation is the payload; a list has no get()
ConfirmHandle(args, index) ==
    IF ~args.given \/ (args.dict /\ DOMAIN args.map = {})
    THEN HandlerReturned(Payload("tool", Some(FALSE), FALSE, FALSE, FALSE))
    ELSE IF ~args.dict THEN HandlerRaised
    ELSE HandlerReturned(Payload("tool",
             Some(validate_confirmations(args.map, Some(index)).satisfied),
             FALSE, FALSE, FALSE))

\* the handler's result: confirmRequirements by its code, any other tool
\* by what the environment of the call makes it do
HandlerResult(name, args, index, env) ==
    IF name = "confirmRequirements" THEN ConfirmHandle(args, index) ELSE env

\* bool(payload.get("satisfied")) of the returned payload
SatisfiedOf(p) == p.satisfied # None /\ p.satisfied[1]

\* the flag once opened stays open
FlagAfterCall_sticky(name, flag, p) ==
    IF name = "confirmRequirements" THEN flag \/ SatisfiedOf(p) ELSE flag

\* the update of the gate flag after a handler returned
FlagAfterCall(name, flag, p) ==
    IF name = "confirmRequirements" THEN SatisfiedOf(p) ELSE flag

\* the guard note of the MCP server
EnrichServer(name, p) ==
    IF name \in ServerDocsTools
    THEN [p EXCEPT !.note = p.note \/ ~p.results]
    ELSE p

\* the guard note and the instruction of the web server
EnrichWeb(name, p) ==
    IF name \in WebDocsTools
    THEN [p EXCEPT !.note = p.note \/ ~p.results, !.instruction = p.results]
    ELSE p

Outcome(flag, invoked, p) ==
    [flag |-> flag, invoked |-> invoked, payload |-> p]

\* what follows the gate in both servers: look the handler up, call it,
\* update the flag on confirmRequirements, enrich
AfterGate(name, args, flag, index, env, web) ==
    IF name \notin tool_handlers
    THEN Outcome(flag, FALSE, ErrorPayload("error: unknown tool"))
    ELSE LET r == HandlerResult(name, args, index, env)
         IN IF r.raised THEN Outcome(flag, TRUE, r.payload)
            ELSE Outcome(FlagAfterCall(name, flag, r.payload), TRUE,
                         IF web THEN EnrichWeb(name, r.payload)
                                ELSE EnrichServer(name, r.payload))

\* CedarModularMCPServer.handle_call_tool
handle_call_tool(name, args, flag, index, env) ==
    IF name \notin allowed_preconfirm /\ ~flag
    THEN Outcome(flag, FALSE, GateMessage)
    ELSE AfterGate(name, args, flag, index, env, FALSE)

\* MCPWebServer._call_tool_with_server_logic: the gate test guards a pass
call_tool_with_server_logic(name, args, flag, index, env) ==
    AfterGate(name, args, flag, index, env, TRUE)

ToolNames == tool_handlers \cup {"startWizard", "mastraSpecialist"}

AllRequired == [id \in ClaimedRequired |-> TRUE]
ConfirmArgs ==
    {NoConfirmations, ListConfirmations,
     DictConfirmations(<<>>),
     DictConfirmations(AllRequired),
     DictConfirmations([AllRequired EXCEPT !["install_policy"] = FALSE]),
     DictConfirmations([id \in {"backend_routes"} |-> TRUE])}

\* what a tool other than confirmRequirements may do
ToolResults ==
    {HandlerRaised,
     HandlerReturned(Payload("tool", None, TRUE, FALSE, FALSE)),
     HandlerReturned(Payload("tool", None, FALSE, FALSE, FALSE))}

GateIndexes == {{S_builtin}, {S_builtin, S_abs}}

NoGateCall ==
    [st |-> "none", web |-> FALSE, name |-> "", args |-> NoConfirmations,
     env |-> HandlerRaised, before |-> FALSE,
     outcome |-> Outcome(FALSE, FALSE, GateMessage)]
GateCall(web, name, args, env, before, out) ==
    [st |-> "returned", web |-> web, name |-> name, args |-> args,
     env |-> env, before |-> before, outcome |-> out]

InitGate ==
    /\ requirements_confirmed = FALSE
    /\ gateIndex \in GateIndexes
    /\ lastCall = NoGateCall
    /\ lastConfirm = None
    /\ GateOthersIdle

\* the history: a confirmRequirements whose handler returned leaves the
\* satisfied entry of its payload
HistoryAfter(name, out, r) ==
    IF name = "confirmRequirements" /\ out.invoked /\ ~r.raised
    THEN Some(r.payload.satisfied)
    ELSE lastConfirm

CallInputs(name) ==
    IF name = "confirmRequirements"
    THEN {[args |-> a, env |-> HandlerRaised] : a \in ConfirmArgs}
    ELSE {[args |-> NoConfirmations, env |-> r] : r \in ToolResults}

\* a tools/call request served by the MCP server
ServerCall ==
    \E name \in ToolNames : \E inp \in CallInputs(name) :
        LET out == handle_call_tool(name, inp.args, requirements_confirmed,
                                    gateIndex, inp.env)
        IN /\ requirements_confirmed' = out.flag
           /\ lastCall' = GateCall(FALSE, name, inp.args, inp.env,
                                   requirements_confirmed, out)
           /\ lastConfirm' = HistoryAfter(name, out,
                  HandlerResult(name, inp.args, gateIndex, inp.env))
           /\ UNCHANGED <<gateIndex, gateOthers>>

\* a tools/call request served by the web server
WebCall ==
    \E name \in ToolNames : \E inp \in CallInputs(name) :
        LET out == call_tool_with_server_logic(name, inp.args,
                       requirements_confirmed, gateIndex, inp.env)
        IN /\ requirements_confirmed' = out.flag
           /\ lastCall' = GateCall(TRUE, name, inp.args, inp.env,
                                   requirements_confirmed, out)
           /\ lastConfirm' = HistoryAfter(name, out,
                  HandlerResult(name, inp.args, gateIndex, inp.env))
           /\ UNCHANGED <<gateIndex, gateOthers>>

NextGate == ServerCall \/ WebCall

SpecGate == InitGate /\ [][NextGate]_vars

ClaimedOpenTools ==
    {"clarifyRequirements", "confirmRequirements", "searchDocs",
     "searchMastraDocs", "checkInstall", "voiceSpecialist"}

\* a call of the MCP server that found the gate closed and named a tool
\* outside the six
ClosedCallOutsideSix ==
    /\ lastCall.st = "returned"
    /\ ~lastCall.web
    /\ ~lastCall.before
    /\ lastCall.name \notin ClaimedOpenTools

C23_FlagIsLastConfirmSatisfied ==
    requirements_confirmed =
        (lastConfirm # None /\ lastConfirm[1] = Some(TRUE))

\* an unsatisfied confirmRequirements has closed a gate found open
C23_Witness ==
    /\ lastCall.st = "returned"
    /\ lastCall.name = "confirmRequirements"
    /\ lastCall.before
    /\ ~requirements_confirmed
    /\ lastConfirm = Some(Some(FALSE))

\* C24: whatever the name, the arguments and the gate, the web server's
\* call ends as handle_call_tool would have: same flag, handler invoked or
\* not alike, same payload
C24_WebCallAsServerCall ==
    (lastCall.st = "returned" /\ lastCall.web) =>
        lastCall.outcome =
            handle_call_tool(lastCall.name, lastCall.args, lastCall.before,
                             gateIndex, lastCall.env)

\* the two agree on the flag
C24_WebFlagAsServerFlag ==
    (lastCall.st = "returned" /\ lastCall.web) =>
        (lastCall.outcome.invoked =>
            lastCall.outcome.flag =
                FlagAfterCall(lastCall.name, lastCall.before,
                    HandlerResult(lastCall.name, lastCall.args, gateIndex,
                                  lastCall.env).payload)
            \/ HandlerResult(lastCall.name, lastCall.args, gateIndex,
                             lastCall.env).raised)

-----------------------------------------------------------------------------
(* IntegrationWizard: sessions, stages and answers *)

MaxAnswers == 12

T_Goal == <<"c", "h", "a", "t">>

\* the number of questions suggest_questions(goal, []) returns: the goal
\* echo when goal.strip() is not empty, the 4 * 2 questions of
\* CLARIFY_DIMENSIONS, no two alike, cut by deduped[:10]
SuggestCount(goal) ==
    Min(10, (IF Strip(goal) # <<>> THEN 1 ELSE 0) + 4 * 2)

ClarifyIds == <<"clarify_0", "clarify_1", "clarify_2", "clarify_3">>

\* _stage_questions: the ids of the questions of the state's stage
stage_questions(state) ==
    IF state.stage = "understand_app"
    THEN \* clarify_questions[:4]
         SubSeq(ClarifyIds, 1, Min(4, SuggestCount(OrEmpty(state.goal))))
    ELSE IF state.stage = "initial_setup"
    THEN <<"provider", "keys_available", "streaming", "ui_cedar",
           "install_cmd_pref">>
    ELSE IF state.stage = "feature_impl" THEN <<"features">>
    ELSE <<>>

\* the stage after the last one is the first again
NextStage_wrap(stage) ==
    IF stage = "understand_app" THEN "initial_setup"
    ELSE IF stage = "initial_setup" THEN "feature_impl"
    ELSE "understand_app"

\* the stage that follows a finished stage; feature_impl stays
NextStage(stage) ==
    IF stage = "understand_app" THEN "initial_setup"
    ELSE IF stage = "initial_setup" THEN "feature_impl"
    ELSE stage

\* _advance_stage_if_complete
advance_stage_if_complete(state) ==
    IF state.question_index >= Len(stage_questions(state))
    THEN IF state.stage \in {"understand_app", "initial_setup"}
         THEN [state EXCEPT !.stage = NextStage(state.stage),
                            !.question_index = 0]
         ELSE [state EXCEPT !.stage = NextStage(state.stage)]
    ELSE state

\* what an operation returns
WizReturn(k, qid, plan) == [kind |-> k, qid |-> qid, plan |-> plan]
NoSession == WizReturn("no_session", "", FALSE)

\* the first lines of get_next_question and of answer: advance when the
\* index is past the questions
Settled(state) ==
    IF state.question_index >= Len(stage_questions(state))
    THEN advance_stage_if_complete(state)
    ELSE state

\* get_next_question on an existing session: the state it leaves and the
\* question or the completion it returns
get_next_question(state) ==
    LET st == Settled(state)
        questions == stage_questions(st)
    IN [state |-> st,
        ret |-> IF st.question_index < Len(questions)
                THEN WizReturn("question", questions[st.question_index + 1],
                               FALSE)
                ELSE WizReturn("complete", "", TRUE)]

\* every answer goes under one key
StoreAnswer_oneKey(answers, qid, a) ==
    [id \in DOMAIN answers \cup {"answer"} |-> a]

\* state.answers[q.id] = answer
StoreAnswer(answers, qid, a) ==
    [id \in DOMAIN answers \cup {qid} |->
        IF id = qid THEN a ELSE answers[id]]

\* answer on an existing session
answer(state, a) ==
    LET st == Settled(state)
        questions == stage_questions(st)
    IN IF st.question_index < Len(questions)
       THEN get_next_question(advance_stage_if_complete(
                [st EXCEPT !.answers = StoreAnswer(st.answers,
                                           questions[st.question_index + 1], a),
                           !.question_index = st.question_index + 1]))
       ELSE [state |-> st, ret |-> WizReturn("completed_message", "", TRUE)]

\* WizardState(stage="understand_app", question_index=0, goal=goal)
NewState(goal) ==
    [stage |-> "understand_app", question_index |-> 0, answers |-> <<>>,
     goal |-> goal]

SessionIds == {"default", "s2"}
Goals == {None, Some(Q_blank), Some(T_Goal)}

WizCall(op, s, ret) ==
    [op |-> op, session |-> s, kind |-> ret.kind, qid |-> ret.qid,
     plan |-> ret.plan]

InitWizard ==
    /\ sessions = [s \in SessionIds |-> None]
    /\ wizAsked = [s \in SessionIds |-> ""]
    /\ wizAnswered = [s \in SessionIds |-> 0]
    /\ wizRet = WizCall("none", "", NoSession)
    /\ WizOthersIdle

\* the history of questions returned
AskedAfter(s, ret) ==
    IF ret.kind = "question" THEN [wizAsked EXCEPT ![s] = ret.qid]
    ELSE IF ret.kind = "complete" THEN [wizAsked EXCEPT ![s] = ""]
    ELSE wizAsked

\* start(session_id, goal): a new state replaces the session's, then
\* get_next_question
Start ==
    \E s \in SessionIds, goal \in Goals :
        LET r == get_next_question(NewState(goal))
        IN /\ sessions' = [sessions EXCEPT ![s] = Some(r.state)]
           /\ wizAsked' = AskedAfter(s, r.ret)
           /\ wizAnswered' = [wizAnswered EXCEPT ![s] = 0]
           /\ wizRet' = WizCall("start", s, r.ret)
           /\ UNCHANGED wizOthers

\* the text of a session's n-th answer
AnswerText(n) == <<"a", n>>

\* answer(session_id, answer)
Answer ==
    \E s \in SessionIds :
        /\ wizAnswered[s] < MaxAnswers
        /\ wizAnswered' = [wizAnswered EXCEPT ![s] = @ + 1]
        /\ IF sessions[s] = None
           THEN /\ wizRet' = WizCall("answer", s, NoSession)
                /\ UNCHANGED <<sessions, wizAsked>>
           ELSE LET r == answer(sessions[s][1],
                                AnswerText(wizAnswered[s] + 1))
                IN /\ sessions' = [sessions EXCEPT ![s] = Some(r.state)]
                   /\ wizAsked' = AskedAfter(s, r.ret)
                   /\ wizRet' = WizCall("answer", s, r.ret)
        /\ UNCHANGED wizOthers

\* get_next_question(session_id)
GetNextQuestion ==
    \E s \in SessionIds :
        /\ IF sessions[s] = None
           THEN /\ wizRet' = WizCall("next", s, NoSession)
                /\ UNCHANGED <<sessions, wizAsked>>
           ELSE LET r == get_next_question(sessions[s][1])
                IN /\ sessions' = [sessions EXCEPT ![s] = Some(r.state)]
                   /\ wizAsked' = AskedAfter(s, r.ret)
                   /\ wizRet' = WizCall("next", s, r.ret)
        /\ UNCHANGED <<wizAnswered, wizOthers>>

\* state(session_id)
State ==
    \E s \in SessionIds :
        /\ wizRet' = WizCall("state", s,
                        IF sessions[s] = None THEN NoSession
                        ELSE WizReturn("state", "", FALSE))
        /\ UNCHANGED <<sessions, wizAsked, wizAnswered, wizOthers>>

\* abort(session_id)
Abort ==
    \E s \in SessionIds :
        /\ sessions' = [sessions EXCEPT ![s] = None]
        /\ wizAsked' = [wizAsked EXCEPT ![s] = ""]
        /\ wizRet' = WizCall("abort", s, WizReturn("aborted", "", FALSE))
        /\ UNCHANGED <<wizAnswered, wizOthers>>

NextWizard == Start \/ Answer \/ GetNextQuestion \/ State \/ Abort

SpecWizard == InitWizard /\ [][NextWizard]_vars

StageRank(stage) ==
    IF stage = "understand_app" THEN 1
    ELSE IF stage = "initial_setup" THEN 2
    ELSE IF stage = "feature_impl" THEN 3
    ELSE 0

\* the questions of the three stages: 4 + 5 + 1
ClaimedQuestions(stage) ==
    IF stage = "understand_app" THEN 4
    ELSE IF stage = "initial_setup" THEN 5
    ELSE 1

ClaimedTotal == 4 + 5 + 1

\* a step that is no start of session s keeps or advances its stage
StageForward ==
    \A s \in SessionIds :
        (/\ sessions[s] # None
         /\ sessions'[s] # None
         /\ ~(wizRet'.op = "start" /\ wizRet'.session = s))
        => StageRank(sessions'[s][1].stage) >= StageRank(sessions[s][1].stage)

\* the index is within the questions of the stage, and completion is
\* reported by the tenth answer since the start and by none before
IndexAndCompletion ==
    /\ \A s \in SessionIds :
          sessions[s] # None =>
              /\ StageRank(sessions[s][1].stage) > 0
              /\ sessions[s][1].question_index >= 0
              /\ sessions[s][1].question_index
                     <= ClaimedQuestions(sessions[s][1].stage)
    /\ (wizRet.op \in {"start", "answer", "next"} /\ wizRet.kind # "no_session")
       => LET n == wizAnswered[wizRet.session]
          IN /\ wizRet.plan => n >= ClaimedTotal
             /\ (wizRet.kind = "complete") => n >= ClaimedTotal
             /\ (wizRet.op = "answer" /\ n < ClaimedTotal)
                    => wizRet.kind = "question"
             /\ (wizRet.op = "answer" /\ n = ClaimedTotal)
                    => wizRet.kind = "complete" /\ wizRet.plan

StepOf(op, s) ==
    /\ <<wizRet'.op, wizRet'.session>> = <<op, s>>
    /\ <<sessions, wizAsked, wizAnswered, wizRet>>' #
           <<sessions, wizAsked, wizAnswered, wizRet>>

\* an answer on an existing session: with a question outstanding the text
\* goes under that question's id and every earlier entry stays; after
\* completion nothing of the state changes
AnswerStored(s) ==
    (StepOf("answer", s) /\ sessions[s] # None) =>
        LET old == sessions[s][1]
            new == sessions'[s][1]
        IN /\ sessions'[s] # None
           /\ \A id \in DOMAIN old.answers :
                  id \in DOMAIN new.answers /\ new.answers[id] = old.answers[id]
           /\ IF wizAsked[s] # ""
              THEN /\ DOMAIN new.answers = DOMAIN old.answers \cup {wizAsked[s]}
                   /\ wizAsked[s] \notin DOMAIN old.answers
                   /\ new.answers[wizAsked[s]] = AnswerText(wizAnswered'[s])
              ELSE /\ wizRet'.kind = "completed_message"
                   /\ new = old

\* answer, state and get_next_question on a session that does not exist
\* return no_session and create none
NoSessionAnswered(s) ==
    ((StepOf("answer", s) \/ StepOf("state", s) \/ StepOf("next", s))
        /\ sessions[s] = None)
    => wizRet'.kind = "no_session" /\ sessions'[s] = None

\* an operation on s leaves every other session
OthersKept(s) ==
    (\E op \in {"start", "answer", "next", "state", "abort"} : StepOf(op, s))
    => \A t \in SessionIds \ {s} : sessions'[t] = sessions[t]

\* C27: an answer is stored under the id of the question last returned for
\* its session, and no answer call overwrites or removes a stored answer;
\* after completion answer calls leave stage, question_index and answers;
\* answer, state and get_next_question on an unknown or aborted session
\* return no_session and create no session; an operation on one session
\* leaves the others
C27_AnswersKeptSessionsApart ==
    [][\A s \in SessionIds :
          AnswerStored(s) /\ NoSessionAnswered(s) /\ OthersKept(s)]_vars

\* a session holds its ten answers and was answered once more, while
\* another session is part-way through its first stage
C27_Witness ==
    /\ \E s \in SessionIds :
          /\ sessions[s] # None
          /\ Cardinality(DOMAIN sessions[s][1].answers) = ClaimedTotal
          /\ wizAnswered[s] > ClaimedTotal
    /\ \E t \in SessionIds :
          /\ sessions[t] # None
          /\ sessions[t][1].stage = "understand_app"
          /\ sessions[t][1].question_index > 0

-----------------------------------------------------------------------------
(* The SSE endpoint of web_server_fastapi_sse_fix.py: GET /sse opens a
   stream with a queue, POST /sse answers in its body or through the queue *)

MaxPosts == 3

\* the uuid4 values GET /sse can draw
ConnIds == {"u1", "u2"}

\* X-Session-Id of a POST: absent, a value no GET returned, or a GET's id
SessionHeaders == {None, Some("zz")} \cup {Some(c) : c \in ConnIds}

\* the body of a POST: empty, no JSON, a notification (handle_mcp_request
\* returns None), a request
PostKinds == {"empty", "invalid", "notification", "request"}

\* the JSON-RPC response of the n-th POST
Response(n, k) == [post |-> n, kind |-> k]

InitSse ==
    /\ sse_connections = {}
    /\ sseQueue = [c \in ConnIds |-> <<>>]
    /\ ssePc = [c \in ConnIds |-> "none"]
    /\ sseEmitted = [c \in ConnIds |-> <<>>]
    /\ postBodies = <<>>
    /\ issued = 0
    /\ SseOthersIdle

\* handle_sse_get: a new SSEConnection under a fresh id is registered and
\* the StreamingResponse over event_generator() is returned
SseGet ==
    \E c \in ConnIds :
        /\ ssePc[c] = "none"
        /\ sse_connections' = sse_connections \cup {c}
        /\ ssePc' = [ssePc EXCEPT ![c] = "new"]
        /\ UNCHANGED <<sseQueue, sseEmitted, postBodies, issued, sseOthers>>

\* event_generator up to its first yield: the open event
StreamStart ==
    \E c \in ConnIds :
        /\ ssePc[c] = "new"
        /\ ssePc' = [ssePc EXCEPT ![c] = "open"]
        /\ UNCHANGED <<sse_connections, sseQueue, sseEmitted, postBodies,
                       issued, sseOthers>>

\* one turn of the loop: connection.queue.get() returns a message and the
\* generator yields it
Emit ==
    \E c \in ConnIds :
        /\ ssePc[c] = "open"
        /\ sseQueue[c] # <<>>
        /\ sseEmitted' = [sseEmitted EXCEPT ![c] = Append(@, Head(sseQueue[c]))]
        /\ sseQueue' = [sseQueue EXCEPT ![c] = Tail(@)]
        /\ UNCHANGED <<sse_connections, ssePc, postBodies, issued, sseOthers>>

\* the client goes away while the generator waits: CancelledError, then the
\* finally clause: active = False, del sse_connections[session_id]
StreamClose ==
    \E c \in ConnIds :
        /\ ssePc[c] = "open"
        /\ ssePc' = [ssePc EXCEPT ![c] = "closed"]
        /\ sse_connections' = sse_connections \ {c}
        /\ UNCHANGED <<sseQueue, sseEmitted, postBodies, issued, sseOthers>>

\* where handle_sse_post puts the response: the queue of the registered
\* connection the header names, else the body
PostTarget(header, registry) ==
    IF header # None /\ header[1] \in registry THEN header ELSE None

\* handle_sse_post
SsePost ==
    \E header \in SessionHeaders, k \in PostKinds :
        /\ issued < MaxPosts
        /\ issued' = issued + 1
        /\ IF k = "notification"
           THEN UNCHANGED <<sseQueue, postBodies>>
           ELSE IF k \in {"empty", "invalid"}
           THEN /\ postBodies' = Append(postBodies, Response(issued + 1, k))
                /\ UNCHANGED sseQueue
           ELSE LET target == PostTarget(header, sse_connections)
                IN IF target # None
                   THEN /\ sseQueue' = [sseQueue EXCEPT ![target[1]] =
                                Append(@, Response(issued + 1, k))]
                        /\ UNCHANGED postBodies
                   ELSE /\ postBodies' =
                                Append(postBodies, Response(issued + 1, k))
                        /\ UNCHANGED sseQueue
        /\ UNCHANGED <<sse_connections, ssePc, sseEmitted, sseOthers>>

NextSse == SseGet \/ StreamStart \/ Emit \/ StreamClose \/ SsePost

SpecSse == InitSse /\ [][NextSse]_vars

\* how often a response has been delivered: in a POST body or on a stream
TimesIn(seq, r) == Cardinality({i \in 1..Len(seq) : seq[i] = r})
RECURSIVE SumOver(_, _)
SumOver(S, r) ==
    IF S = {} THEN 0
    ELSE LET c == CHOOSE x \in S : TRUE
         IN TimesIn(sseEmitted[c], r) + SumOver(S \ {c}, r)
Delivered(r) == TimesIn(postBodies, r) + SumOver(ConnIds, r)

\* the response waits in the queue of a registered connection
Waiting(r) == \E c \in sse_connections : TimesIn(sseQueue[c], r) = 1

\* the responses of the POSTs served so far (a notification has none)
ResponsesSoFar ==
    {r \in {Response(n, k) : n \in 1..issued, k \in PostKinds \ {"notification"}} :
        Delivered(r) > 0 \/ \E c \in ConnIds : TimesIn(sseQueue[c], r) > 0}

\* C28: every response of a POST /sse is delivered exactly once, in the
\* POST's body or on the stream of the registered connection its header
\* names; until then it waits in that connection's queue, so none is lost
\* when a stream closes; and a closed connection is not in the registry
C28_ResponseDeliveredOnceNeverLost ==
    /\ \A r \in ResponsesSoFar :
          \/ Delivered(r) = 1 /\ ~\E c \in ConnIds : TimesIn(sseQueue[c], r) > 0
          \/ Delivered(r) = 0 /\ Waiting(r)
    /\ \A c \in ConnIds : ssePc[c] = "closed" => c \notin sse_connections

\* no response is delivered twice, and closed connections are unregistered
C28_AtMostOnceAndUnregistered ==
    /\ \A r \in ResponsesSoFar : Delivered(r) <= 1
    /\ \A c \in ConnIds : ssePc[c] = "closed" => c \notin sse_connections
    /\ \A c \in sse_connections : ssePc[c] \in {"new", "open"}

-----------------------------------------------------------------------------
(* scripts/fetch_llms_txt.py: fetch_single_doc and maybe_write_text *)

MaxTime == 2

B_a == <<"a">>
B_aNewline == <<"a", "\n">>
B_b == <<"b">>
Bodies == {B_a, B_aNewline, B_b}
ETags == {None, Some("e1")}

\* full = "\n".join(header_lines) + body.rstrip() + "\n": the header
\* fields and the body as the file holds them
FullText(header_meta, body) ==
    [source |-> header_meta.source_url, fetched |-> header_meta.fetched_at_iso,
     etag |-> header_meta.etag, body |-> RStrip(body) \o <<"\n">>]

\* the file is compared by its body alone
SameAsStored_bodyOnly(prev, full) == prev # None /\ prev[1].body = full.body

\* prev is not None and compute_sha256(prev) == compute_sha256(full)
SameAsStored(prev, full) == prev # None /\ prev[1] = full

\* maybe_write_text: the file afterwards and the value returned
maybe_write_text(prev, body, header_meta) ==
    LET full == FullText(header_meta, body)
    IN IF SameAsStored(prev, full)
       THEN [file |-> prev, changed |-> FALSE]
       ELSE [file |-> Some(full), changed |-> TRUE]

\* what requests.get does: 304, an error (raise_for_status, a timeout), or
\* 200 with a body and an ETag
FetchResults ==
    {[status |-> "304", body |-> <<>>, etag |-> None],
     [status |-> "error", body |-> <<>>, etag |-> None]}
    \cup {[status |-> "200", body |-> b, etag |-> t] : b \in Bodies, t \in ETags}

Url == "https://docs.cedarcopilot.com/llms-full.txt"

NoRun ==
    [status |-> "none", body |-> <<>>, changed |-> FALSE, outBefore |-> None,
     metaBefore |-> None, returned |-> FALSE]
Run(status, body, changed, returned) ==
    [status |-> status, body |-> body, changed |-> changed,
     outBefore |-> outFile, metaBefore |-> metaFile, returned |-> returned]

InitFetch ==
    /\ outFile = None
    /\ metaFile = None
    /\ clock = 0
    /\ lastRun = NoRun
    /\ FetchOthersIdle

\* fetch_single_doc with a url that ends in /llms-full.txt
FetchSingleDoc ==
    \E r \in FetchResults, tick \in {0, 1} :
        /\ clock + tick <= MaxTime
        /\ clock' = clock + tick
        /\ IF r.status = "304"
           THEN /\ lastRun' = Run("304", <<>>, FALSE, TRUE)
                /\ UNCHANGED <<outFile, metaFile>>
           ELSE IF r.status # "200"
           THEN /\ lastRun' = Run(r.status, <<>>, FALSE, FALSE)
                /\ UNCHANGED <<outFile, metaFile>>
           ELSE LET header_meta == [source_url |-> Url,
                                    fetched_at_iso |-> clock',
                                    etag |-> r.etag]
                    w == maybe_write_text(outFile, r.body, header_meta)
                IN /\ outFile' = w.file
                   /\ metaFile' = Some([etag |-> r.etag,
                                        fetched_at_iso |-> clock',
                                        hash |-> r.body])
                   /\ lastRun' = Run("200", r.body, w.changed, TRUE)
        /\ UNCHANGED fetchOthers

\* fetch_single_doc with a url that ends in /llms.txt: refused
FetchRestricted ==
    /\ lastRun' = Run("restricted", <<>>, FALSE, FALSE)
    /\ lastRun' # lastRun
    /\ UNCHANGED <<outFile, metaFile, clock, fetchOthers>>

NextFetch == FetchSingleDoc \/ FetchRestricted

SpecFetch == InitFetch /\ [][NextFetch]_vars

\* the run fetched a body equal to the body the file held
FetchedStoredBody ==
    /\ lastRun.status = "200"
    /\ lastRun.outBefore # None
    /\ lastRun.outBefore[1].body = RStrip(lastRun.body) \o <<"\n">>

\* C29: a fetched body identical to the stored body makes maybe_write_text
\* return False and leaves the output file as it was, whenever it is
\* fetched; a 304 and a failed fetch write neither the output nor the meta
\* file
C29_SameBodyNotRewritten ==
    /\ FetchedStoredBody => ~lastRun.changed /\ outFile = lastRun.outBefore
    /\ lastRun.status \notin {"none", "200"}
           => outFile = lastRun.outBefore /\ metaFile = lastRun.metaBefore

\* what holds: the file is left when body, fetch time and ETag are all those
\* of the file; a 304 and a failure write nothing
C29_SameFileNotRewritten ==
    /\ (FetchedStoredBody /\ lastRun.outBefore[1].fetched = clock
            /\ lastRun.outBefore[1].etag = outFile[1].etag
            /\ ~lastRun.changed)
           => outFile = lastRun.outBefore
    /\ (FetchedStoredBody /\ lastRun.outBefore[1].fetched # clock)
           => lastRun.changed
    /\ lastRun.status \notin {"none", "200"}
           => outFile = lastRun.outBefore /\ metaFile = lastRun.metaBefore

-----------------------------------------------------------------------------
(* The chunks a MastraDocsIndex holds *)

\* the lines at which a run of body lines starts
RunStarts(ls) ==
    {a \in 1..Len(ls) : IsBodyLine(ls[a]) /\ (a = 1 \/ ~IsBodyLine(ls[a - 1]))}

\* the runs that come after a "#" line and hold a non-blank line
HeadedRuns(ls) ==
    {a \in RunStarts(ls) :
        /\ LatestHeading(ls, a) # 0
        /\ Strip(JoinLines(SubSeq(ls, a, RunEnd(ls, a)))) # <<>>}

\* C30: every chunk of a MastraDocsIndex has a heading that is not None and
\* a content that is stripped and not empty; each chunk is the text of a
\* run of body lines that follows a "#" line, under the latest such line,
\* and there are no more chunks than such runs: so lines before the first
\* heading, and headings with no non-blank body, are in no chunk
C30_ChunksHeadedAndNonEmpty ==
    Parsed =>
        LET ls == SplitLines(mdText)
        IN /\ \A i \in 1..Len(chunks) :
                 /\ chunks[i].heading # None
                 /\ chunks[i].content # <<>>
                 /\ Strip(chunks[i].content) = chunks[i].content
                 /\ \E a \in HeadedRuns(ls) :
                        /\ chunks[i].content =
                               Strip(JoinLines(SubSeq(ls, a, RunEnd(ls, a))))
                        /\ chunks[i].heading =
                               Some(HeadingValue(ls[LatestHeading(ls, a)]))
           /\ Len(chunks) <= Cardinality(HeadedRuns(ls))

\* a text that opens with a body line, goes on with a heading without a
\* body and a heading with one
C30_Witness ==
    /\ Parsed
    /\ LET ls == SplitLines(mdText)
       IN /\ Len(ls) = 4
          /\ ls[1] = L_BodyP
          /\ ls[2] = L_Heading
          /\ ls[3] = L_Heading
          /\ ls[4] = L_Body
    /\ Len(chunks) = 1
    /\ chunks[1].content = L_Body

=============================================================================
